---- MODULE Spec2Model ----
(***************************************************************************)
(* PatchcoreBackend: the decision policy (score_utils.py), the result      *)
(* cache and the inference engine (inference_engine.py), the settings /    *)
(* environment loaders and the API's engine lifecycle (patchcore_api.py).  *)
(*                                                                         *)
(* Numbers are fixed point integers.  A Z-score map is a sequence of       *)
(* cells.  The OrderedDict image_store is a sequence of <<key, image>>     *)
(* pairs, oldest first.                                                    *)
(***************************************************************************)
EXTENDS Integers, Sequences, FiniteSets, TLC

VARIABLES
    dz,          \* decision policy: the Z-score map handed to evaluate_z_score_map
    dthr,        \* decision policy: the threshold triple
    dres,        \* decision policy: the (stats, label) computed, or None
    envFile,     \* the .env file as it is now on disk (or absent)
    envConst,    \* env_loader's module constants, read once when the module is imported
    settings,    \* settings/models/<name>/settings.py as it is now on disk, per model
    disk,        \* models/<name>/: the artifact files present and the build they come from
    booted,      \* whether patchcore_api has been imported (env read, first reload_engine run)
    inst,        \* PatchCoreInferenceEngine._instance: the object's fields (id 0: no object)
    engine,      \* patchcore_api's global engine: 0 is None, otherwise the object's id
    reqs,        \* the /engine/predict requests being handled
    tasks,       \* the NG save threads started and not yet run
    ngFiles,     \* the NG image files written
    apilog,      \* the errors /predict has reported with logger.error, oldest first
    logs,        \* execute/log: the dated all-results log and NG.log, as lists of entries
    errlog,      \* the "NG image save failed" lines logged
    puts,        \* history: the keys put since the store was last created
    pre,         \* history: the store as it was before each of those puts
    ret,         \* the value returned by the last cache operation
    hist,        \* history: the profile each engine object was constructed with, by id
    objs,        \* history: how many engine objects have been created
    nops,        \* history: how many restarts, predict requests and file changes have run
    detached,    \* the OrderedDict objects image_store was bound to before, each as it is now
    thr,         \* the threads calling the engine's cache methods: operation, position, locals
    tops,        \* history: how many cache method calls the threads have started
    corpus,      \* datasets/<name>/normal: each image file readable, unreadable or absent
    built,       \* models/<name>/ as run_creator sees it: the run each file was written by
    bld,         \* run_creator's position, the image paths it listed, the directory before
    vmod,        \* validate_model_settings: the settings module it is called on
    vres,        \* validate_model_settings: what the call returned, or that it has not run
    cli,         \* PatchCoreApiClient.predict: position in the retry loop, attempts, result
    cal          \* the memory bank: the file run_creator saved, the set it scored against,
                 \* and the set the engine loaded

vars == <<apilog, logs, dz, dthr, dres, envFile, envConst, settings, disk, booted, inst, engine,
          reqs, tasks, ngFiles, errlog, puts, pre, ret, hist, objs, nops, detached, thr, tops,
          corpus, built, bld, vmod, vres, cli, cal>>

(* ------------------------------ bounds -------------------------------- *)
NCells == 2        \* cells of a Z-score map
MaxZ == 3          \* largest cell value the decision policy is tried on
MaxCache == 2      \* largest max_images the cache operations are tried on
MaxOps == 3        \* restarts, predict requests and file changes in one run
MaxIds == 2        \* distinct timestamp/uuid parts of a result id

Cells == 1..NCells
ZVals == 0..MaxZ
ZMaps == [Cells -> ZVals]
Thresholds == [z_score : 0..(MaxZ - 1), z_area : 0..(NCells + 1), z_max : 0..(MaxZ + 1)]

(* ------------------- score_utils.py: decision policy ------------------- *)
RECURSIVE SumSeq(_)
SumSeq(s) == IF s = <<>> THEN 0 ELSE Head(s) + SumSeq(Tail(s))

SeqMax(s) == CHOOSE v \in {s[i] : i \in DOMAIN s} : \A i \in DOMAIN s : s[i] <= v
SeqMin(s) == CHOOSE v \in {s[i] : i \in DOMAIN s} : \A i \in DOMAIN s : v <= s[i]

\* area / z_map.size, kept as the fraction it is
Ratio(num, den) == [num |-> num, den |-> den]

\* the cells counted from the threshold on
evaluate_z_score_map_from(z_map, z_score_threshold) ==
    LET area == Cardinality({i \in DOMAIN z_map : z_map[i] >= z_score_threshold})
    IN  [total |-> SumSeq(z_map), area |-> area, maxval |-> SeqMax(z_map),
         minval |-> SeqMin(z_map), area_ratio |-> Ratio(area, Len(z_map))]

\* area = np.sum(z_map > z_score_threshold); maxval = np.max(z_map);
\* area_ratio = area / z_map.size
evaluate_z_score_map(z_map, z_score_threshold) ==
    LET area == Cardinality({i \in DOMAIN z_map : z_map[i] > z_score_threshold})
    IN  [total |-> SumSeq(z_map), area |-> area, maxval |-> SeqMax(z_map),
         minval |-> SeqMin(z_map), area_ratio |-> Ratio(area, Len(z_map))]

\* a slip of the comparison: the area limit taken as inclusive
is_ok_z_inclusive(stats, z_area_threshold, z_max_threshold) ==
    stats.area <= z_area_threshold /\ stats.maxval < z_max_threshold

is_ok_z(stats, z_area_threshold, z_max_threshold) ==
    stats.area < z_area_threshold /\ stats.maxval < z_max_threshold

\* predict: label_str = "OK" if is_ok else "NG"
label_str(is_ok) == IF is_ok THEN "OK" ELSE "NG"

(* ---------------- inference_engine.py: the result cache ---------------- *)
Keys(store) == {store[i][1] : i \in DOMAIN store}
IndexOf(store, k) == CHOOSE i \in DOMAIN store : store[i][1] = k

\* a dict that moves a key that is set again to the end
SetItemToEnd(store, k, image) ==
    Append(SelectSeq(store, LAMBDA e : e[1] # k), <<k, image>>)

\* OrderedDict.__setitem__: an existing key keeps its position, a new key goes last
SetItem(store, k, image) ==
    IF k \in Keys(store)
    THEN [store EXCEPT ![IndexOf(store, k)] = <<k, image>>]
    ELSE Append(store, <<k, image>>)

\* eviction with the limit test off by one
store_image_early(store, limit, k, image) ==
    LET s1 == SetItem(store, k, image)
    IN  IF Len(s1) >= limit /\ s1 # <<>> THEN Tail(s1) ELSE s1

\* eviction of the newest entry instead of the oldest
store_image_lifo(store, limit, k, image) ==
    LET s1 == SetItem(store, k, image)
    IN  IF Len(s1) > limit THEN SubSeq(s1, 1, Len(s1) - 1) ELSE s1

\* _store_image: insert, then popitem(last=False) when the size exceeds max_images
store_image(store, limit, k, image) ==
    LET s1 == SetItem(store, k, image)
    IN  IF Len(s1) > limit THEN Tail(s1) ELSE s1

\* an image buffer: the input pixels, and for an overlay the heat map blended onto them
Img(px) == [kind |-> "org", px |-> px, heat |-> <<>>]
\* Python's None where an image is expected
NoImage == [kind |-> "none", px |-> <<>>, heat |-> <<>>]

\* get_image_by_id: self.image_store.get(image_id)
get_image_by_id(store, k) ==
    IF k \in Keys(store) THEN store[IndexOf(store, k)][2] ELSE NoImage

\* the keys listed without the reversal
get_store_image_list_forward(store) ==
    [i \in 1..Len(store) |-> store[i][1]]

\* get_store_image_list: list(reversed(self.image_store.keys()))
get_store_image_list(store) ==
    [i \in 1..Len(store) |-> store[Len(store) + 1 - i][1]]

\* clear_store_image: self.image_store = OrderedDict()
clear_store_image == <<>>

(* --------------- env_loader.py: the environment constants -------------- *)
Models == {"example_model", "B"}

\* EnvLoader.get's defaults (env_loader.py lines 164-189)
ENV_DEFAULT_MAX_CACHE_IMAGES == 1200
EnvDefaults ==
    [DEFAULT_MODEL_NAME |-> "example_model", USE_GPU |-> FALSE,
     MAX_CACHE_IMAGES |-> ENV_DEFAULT_MAX_CACHE_IMAGES, NG_IMAGE_SAVE |-> TRUE]
EnvKeys == DOMAIN EnvDefaults

\* the .env files considered: the keys the file sets, and their values
NoEnvFile == [exists |-> FALSE]
EnvFile(m, gpu, cache, ng) ==
    [exists |-> TRUE, keys |-> EnvKeys,
     vals |-> [DEFAULT_MODEL_NAME |-> m, USE_GPU |-> gpu,
               MAX_CACHE_IMAGES |-> cache, NG_IMAGE_SAVE |-> ng]]
EmptyEnvFile == [exists |-> TRUE, keys |-> {}, vals |-> EnvDefaults]
EnvFiles ==
    {NoEnvFile,
     EnvFile("example_model", FALSE, 3, TRUE),
     EnvFile("B", TRUE, 1, FALSE),
     EmptyEnvFile}

\* EnvLoader.get: os.getenv(key, default); a value that is not there gives the default
EnvGet(file, key) ==
    IF file.exists /\ key \in file.keys THEN file.vals[key] ELSE EnvDefaults[key]

\* the module-level constants, evaluated when env_loader is imported
EnvConstants(file) == [k \in EnvKeys |-> EnvGet(file, k)]

\* make_env_file: a missing .env is copied from .env.example when that file is there
make_env_file(file, example) == IF file.exists THEN file ELSE example

(* -------------- settings_loader.py: the settings of a model ------------ *)
NoSettings == [exists |-> FALSE]
SettingsFile(zs, za, zm, ng, cache, gpu) ==
    [exists |-> TRUE, AFFINE_POINTS |-> 4, IMAGE_SIZE |-> NCells, SAVE_FORMAT |-> "compressed",
     Z_SCORE_THRESHOLD |-> zs, Z_AREA_THRESHOLD |-> za, Z_MAX_THRESHOLD |-> zm,
     NG_IMAGE_SAVE |-> ng, MAX_CACHE_IMAGE |-> cache, USE_GPU |-> gpu]
SettingsFiles ==
    {NoSettings,
     SettingsFile(1, 1, 4, TRUE, 2, FALSE),
     SettingsFile(2, 2, 3, FALSE, 1, FALSE),
     SettingsFile(1, 2, 8, TRUE, 4, TRUE),
     [SettingsFile(1, 1, 4, TRUE, 2, FALSE) EXCEPT !.AFFINE_POINTS = 3]}

\* get_variable's env_override_map: setting name -> env_loader constant
env_override_map ==
    [USE_GPU |-> "USE_GPU", MAX_CACHE_IMAGE |-> "MAX_CACHE_IMAGES",
     NG_IMAGE_SAVE |-> "NG_IMAGE_SAVE"]

\* SettingsLoader.get_variable: the env_loader constant wins when it is there (not None) and
\* the .env file exists now; otherwise the value of the settings module
get_variable(module, consts, file, name) ==
    IF name \in DOMAIN env_override_map
       /\ env_override_map[name] \in DOMAIN consts
       /\ file.exists
    THEN consts[env_override_map[name]]
    ELSE module[name]

\* validate_model_settings: required_vars, in the order they are looked up
required_vars ==
    <<"AFFINE_POINTS", "IMAGE_SIZE", "Z_SCORE_THRESHOLD", "Z_AREA_THRESHOLD",
      "Z_MAX_THRESHOLD", "PCA_VARIANCE", "FEATURE_DEPTH", "SAVE_FORMAT", "ENABLE_AUGMENT">>

\* the order in which the try block tests the values
check_order ==
    <<"AFFINE_POINTS", "IMAGE_SIZE", "Z_SCORE_THRESHOLD", "Z_MAX_THRESHOLD",
      "Z_AREA_THRESHOLD", "PCA_VARIANCE", "FEATURE_DEPTH", "SAVE_FORMAT", "ENABLE_AUGMENT">>

\* a settings module as the validation sees it: each required name is not defined
\* ("missing"), or its value fails ("bad") or passes ("ok") the test made on it
RequiredNames == {required_vars[i] : i \in DOMAIN required_vars}
ValueKinds == {"ok", "bad", "missing"}

\* the first loop: one message for every required name that is not defined
RECURSIVE MissingErrors(_, _)
MissingErrors(module, names) ==
    IF names = <<>> THEN <<>>
    ELSE IF module[Head(names)] = "missing"
         THEN <<[kind |-> "undefined", name |-> Head(names)]>>
                  \o MissingErrors(module, Tail(names))
         ELSE MissingErrors(module, Tail(names))

\* the try block: the values are tested one after the other; get_variable raises
\* AttributeError at the first name that is not defined, and the except clause records
\* that message and ends the tests
RECURSIVE ValueErrors(_, _)
ValueErrors(module, names) ==
    IF names = <<>> THEN <<>>
    ELSE IF module[Head(names)] = "missing"
         THEN <<[kind |-> "attribute", name |-> Head(names)]>>
         ELSE IF module[Head(names)] = "bad"
         THEN <<[kind |-> "constraint", name |-> Head(names)]>>
                  \o ValueErrors(module, Tail(names))
         ELSE ValueErrors(module, Tail(names))

\* validate_model_settings: (len(errors) == 0, errors)
validate_model_settings(module) ==
    LET errors == MissingErrors(module, required_vars) \o ValueErrors(module, check_order)
    IN  [ok |-> Len(errors) = 0, errors |-> errors]

(* ---------------- model_loader.py: calibration artifacts --------------- *)
bank_path(save_format) ==
    IF save_format = "compressed" THEN "memory_bank_compressed.pkl" ELSE "memory_bank.pkl"

\* the files load_model_and_assets opens
Needed(save_format) == {"model.pt", bank_path(save_format), "pca.pkl", "pixel_stats.pkl"}

\* what a build of the calibration profile holds (two builds, differing in every part)
Build(b) ==
    IF b = 1
    THEN [model |-> [build |-> 1, gain |-> 1], memory_bank |-> <<0, 2>>, pca |-> [mean |-> 0],
          pixel_mean |-> [i \in Cells |-> 0],
          pixel_std |-> [i \in Cells |-> IF i = 1 THEN 1 ELSE 0]]
    ELSE [model |-> [build |-> 2, gain |-> 2], memory_bank |-> <<1, 3, 5>>, pca |-> [mean |-> 1],
          pixel_mean |-> [i \in Cells |-> 1],
          pixel_std |-> [i \in Cells |-> IF i = 1 THEN 1 ELSE 2]]
Builds == {1, 2}

\* load_model_and_assets: every file is opened; a missing one raises and nothing is returned
load_model_and_assets(dir, save_format) ==
    IF Needed(save_format) \subseteq dir.files
    THEN [raised |-> FALSE, assets |-> Build(dir.build)]
    ELSE [raised |-> TRUE, assets |-> Build(dir.build)]

(* ------------- inference_engine.py: PatchCoreInferenceEngine ----------- *)
\* 1 / 1e-6, the epsilon that replaces a zero pixel_std (line 93)
EPS_INV == 1000000
\* np.clip(z_score_map, 0, 5.0) (line 286)
HEAT_CLIP == 5

\* the object's attributes; stage tells how far __init__ got ("none": no object)
Blank ==
    [id |-> 0, initialized |-> FALSE, stage |-> "none", model_name |-> "",
     affine_points |-> 0, image_size |-> 0, save_format |-> "",
     z_score_threshold |-> 0, z_area_threshold |-> 0, z_max_threshold |-> 0,
     ng_image_save |-> FALSE, max_images |-> 0, use_gpu |-> FALSE,
     model |-> [build |-> 0, gain |-> 0], memory_bank |-> <<>>, pca |-> [mean |-> 0],
     pixel_mean |-> <<>>, pixel_std |-> <<>>, pixel_std_safe |-> <<>>,
     image_store |-> <<>>]

\* a class that makes a new object at every construction
new_always(cur, newid) == [Blank EXCEPT !.id = newid, !.stage = "new"]

\* __new__: the class keeps one object; a new one is made only when there is none
new(cur, newid) ==
    IF cur.id = 0 THEN [Blank EXCEPT !.id = newid, !.stage = "new"] ELSE cur

\* _reload_settings: every setting is read again through get_variable
reload_settings(self, module, consts, file) ==
    [self EXCEPT
        !.affine_points = get_variable(module, consts, file, "AFFINE_POINTS"),
        !.image_size = get_variable(module, consts, file, "IMAGE_SIZE"),
        !.save_format = get_variable(module, consts, file, "SAVE_FORMAT"),
        !.z_score_threshold = get_variable(module, consts, file, "Z_SCORE_THRESHOLD"),
        !.z_area_threshold = get_variable(module, consts, file, "Z_AREA_THRESHOLD"),
        !.z_max_threshold = get_variable(module, consts, file, "Z_MAX_THRESHOLD"),
        !.ng_image_save = get_variable(module, consts, file, "NG_IMAGE_SAVE"),
        !.max_images = get_variable(module, consts, file, "MAX_CACHE_IMAGE"),
        !.use_gpu = get_variable(module, consts, file, "USE_GPU"),
        !.stage = "settings"]

\* the grid taken as it is, zero cells included
std_unguarded(pixel_std) == [i \in DOMAIN pixel_std |-> pixel_std[i] * EPS_INV]

\* pixel_std_safe = np.where(pixel_std == 0, 1e-6, pixel_std), in units of 1e-6
std_safe(pixel_std) ==
    [i \in DOMAIN pixel_std |-> IF pixel_std[i] = 0 THEN 1 ELSE pixel_std[i] * EPS_INV]

\* __init__ run on the object __new__ returned: [obj, raised]
init(self, model_name, sfiles, dirs, consts, file) ==
    IF self.initialized THEN [obj |-> self, raised |-> FALSE]
    ELSE LET s0 == [self EXCEPT !.initialized = TRUE, !.model_name = model_name]
         IN  IF ~sfiles[model_name].exists THEN [obj |-> s0, raised |-> TRUE]
             ELSE LET s1 == reload_settings(s0, sfiles[model_name], consts, file)
                      ld == load_model_and_assets(dirs[model_name], s1.save_format)
                  IN  IF ld.raised THEN [obj |-> s1, raised |-> TRUE]
                      ELSE [obj |-> [s1 EXCEPT
                                       !.model = ld.assets.model,
                                       !.memory_bank = ld.assets.memory_bank,
                                       !.pca = ld.assets.pca,
                                       !.pixel_mean = ld.assets.pixel_mean,
                                       !.pixel_std = ld.assets.pixel_std,
                                       !.pixel_std_safe = std_safe(ld.assets.pixel_std),
                                       !.image_store = <<>>,
                                       !.stage = "ready"],
                            raised |-> FALSE]

Abs(x) == IF x < 0 THEN 0 - x ELSE x
Mean(s) == SumSeq(s) \div Len(s)
Clip(x, lo, hi) == IF x < lo THEN lo ELSE IF x > hi THEN hi ELSE x

\* _run_model: features, pca.transform, distance to memory_bank.mean(axis=0)
run_model(self, px) ==
    [i \in DOMAIN px |->
        Abs((px[i] * self.model.gain - self.pca.mean) - Mean(self.memory_bank))]

\* _resize_score_map: the score grid resampled to image_size cells
resize_score_map(score_map, image_size) ==
    [i \in 1..image_size |-> score_map[((i - 1) * Len(score_map)) \div image_size + 1]]

\* a standardization that drifts with the number of results held in the cache
compute_z_score_map_drift(self, raw) ==
    [i \in DOMAIN raw |->
        ((raw[i] - self.pixel_mean[i] + Len(self.image_store)) * 2 * EPS_INV)
            \div self.pixel_std_safe[i]]

\* _compute_z_score_map: (raw - pixel_mean) / pixel_std_safe, kept in halves
compute_z_score_map(self, raw) ==
    [i \in DOMAIN raw |->
        ((raw[i] - self.pixel_mean[i]) * 2 * EPS_INV) \div self.pixel_std_safe[i]]

\* _generate_overlay: the clipped Z-score map blended onto the input
generate_overlay(image, z_score_map) ==
    [kind |-> "ovr", px |-> image.px,
     heat |-> [i \in DOMAIN z_score_map |-> Clip(z_score_map[i], 0, 2 * HEAT_CLIP)]]

\* the calibration profile an engine object holds
Profile(self) ==
    [model |-> self.model, memory_bank |-> self.memory_bank, pca |-> self.pca,
     pixel_mean |-> self.pixel_mean, pixel_std_safe |-> self.pixel_std_safe,
     z_score |-> self.z_score_threshold, z_area |-> self.z_area_threshold,
     z_max |-> self.z_max_threshold,
     affine_points |-> self.affine_points, image_size |-> self.image_size]
NoProfile == Profile(Blank)

NoStats == [total |-> 0, area |-> 0, maxval |-> 0, minval |-> 0, area_ratio |-> Ratio(0, 0)]
NoResult ==
    [label |-> "", z_stats |-> NoStats,
     thresholds |-> [z_score |-> 0, z_area |-> 0, z_max |-> 0],
     image_id |-> [original |-> <<"org", "", 0>>, overlay |-> <<"ovr", "", 0>>]]

\* _result_gen
result_gen(self, label, z_stats, image_id) ==
    [label |-> label, z_stats |-> z_stats,
     thresholds |-> [z_score |-> self.z_score_threshold, z_area |-> self.z_area_threshold,
                     z_max |-> self.z_max_threshold],
     image_id |-> [original |-> <<"org", image_id[1], image_id[2]>>,
                   overlay |-> <<"ovr", image_id[1], image_id[2]>>]]

\* preprocess_cv2: np.array(quad_pts) and cv2.getPerspectiveTransform, which raises unless
\* quad_pts is four points; the warp itself is the identity on the cells here
preprocess_cv2_any_points(image, quad_pts, output_size) ==
    [raised |-> FALSE, inputs |-> image.px]

preprocess_cv2(image, quad_pts, output_size) ==
    [raised |-> quad_pts # 4, inputs |-> image.px]

NoLogs == [all |-> <<>>, ng |-> <<>>]

\* a logger that writes every result to NG.log as well
log_result_every_label(files, result, log) ==
    IF log = "no_dir" THEN [raised |-> TRUE, files |-> files]
    ELSE IF log = "no_ng" /\ result.label = "NG"
    THEN [raised |-> TRUE, files |-> [files EXCEPT !.all = Append(files.all, result)]]
    ELSE [raised |-> FALSE, files |-> [all |-> Append(files.all, result),
                                       ng |-> Append(files.ng, result)]]

\* _log_result: os.makedirs, then one line appended to inference_{date}.log and, for the
\* label NG, one line appended to NG.log.  log tells what the file system does: "ok",
\* "no_dir" (makedirs or the first open raises), "no_ng" (opening NG.log raises)
log_result(files, result, log) ==
    IF log = "no_dir" THEN [raised |-> TRUE, files |-> files]
    ELSE IF log = "no_ng" /\ result.label = "NG"
    THEN [raised |-> TRUE, files |-> [files EXCEPT !.all = Append(files.all, result)]]
    ELSE [raised |-> FALSE,
          files |-> [all |-> Append(files.all, result),
                     ng |-> IF result.label = "NG" THEN Append(files.ng, result)
                            ELSE files.ng]]

NoTask == [image_id |-> <<"", 0>>, overlay |-> NoImage, original |-> NoImage]

\* the save condition without the persistence flag
ng_save_wanted_any(is_ok, ng_image_save) == ~is_ok

\* predict line 363: if not is_ok and self.ng_image_save
ng_save_wanted(is_ok, ng_image_save) == ~is_ok /\ ng_image_save

\* a predict that writes the result log before it prepares the NG save
predict_log_first(self, image, suffix, mkdir_ok, log, files) ==
    LET pre_in == preprocess_cv2(image, self.affine_points, self.image_size)
        z_score_map == compute_z_score_map(self,
                           resize_score_map(run_model(self, pre_in.inputs), self.image_size))
        z_stats == evaluate_z_score_map(z_score_map, self.z_score_threshold)
        is_ok == is_ok_z(z_stats, self.z_area_threshold, self.z_max_threshold)
        overlay == generate_overlay(image, z_score_map)
        image_id == <<label_str(is_ok), suffix>>
        store1 == store_image(self.image_store, self.max_images,
                              <<"org", image_id[1], image_id[2]>>, image)
        store2 == store_image(store1, self.max_images,
                              <<"ovr", image_id[1], image_id[2]>>, overlay)
        result == result_gen(self, label_str(is_ok), z_stats, image_id)
        logged == log_result(files, result, log)
        task == [image_id |-> image_id, overlay |-> overlay, original |-> image]
    IN  IF pre_in.raised
        THEN [raised |-> TRUE, why |-> "geometry", store |-> self.image_store,
              result |-> NoResult, used |-> NoProfile, started |-> FALSE, task |-> NoTask,
              files |-> files]
        ELSE IF logged.raised
        THEN [raised |-> TRUE, why |-> "log", store |-> store2,
              result |-> NoResult, used |-> Profile(self), started |-> FALSE, task |-> NoTask,
              files |-> logged.files]
        ELSE IF ng_save_wanted(is_ok, self.ng_image_save) /\ ~mkdir_ok
        THEN [raised |-> TRUE, why |-> "makedirs", store |-> store2,
              result |-> NoResult, used |-> Profile(self), started |-> FALSE, task |-> NoTask,
              files |-> logged.files]
        ELSE [raised |-> FALSE, why |-> "", store |-> store2,
              result |-> result, used |-> Profile(self),
              started |-> ng_save_wanted(is_ok, self.ng_image_save), task |-> task,
              files |-> logged.files]

\* predict: [raised, why, store, result, used, started, task, files].  suffix stands for the
\* timestamp and uuid part of the id; mkdir_ok tells whether os.makedirs succeeds, log what
\* the file system does in _log_result, files are the two log files
predict(self, image, suffix, mkdir_ok, log, files) ==
    LET pre_in == preprocess_cv2(image, self.affine_points, self.image_size)
        z_score_map == compute_z_score_map(self,
                           resize_score_map(run_model(self, pre_in.inputs), self.image_size))
        z_stats == evaluate_z_score_map(z_score_map, self.z_score_threshold)
        is_ok == is_ok_z(z_stats, self.z_area_threshold, self.z_max_threshold)
        overlay == generate_overlay(image, z_score_map)
        image_id == <<label_str(is_ok), suffix>>
        store1 == store_image(self.image_store, self.max_images,
                              <<"org", image_id[1], image_id[2]>>, image)
        store2 == store_image(store1, self.max_images,
                              <<"ovr", image_id[1], image_id[2]>>, overlay)
        result == result_gen(self, label_str(is_ok), z_stats, image_id)
        logged == log_result(files, result, log)
        task == [image_id |-> image_id, overlay |-> overlay, original |-> image]
    IN  IF pre_in.raised
        THEN [raised |-> TRUE, why |-> "geometry", store |-> self.image_store,
              result |-> NoResult, used |-> NoProfile, started |-> FALSE, task |-> NoTask,
              files |-> files]
        ELSE IF ng_save_wanted(is_ok, self.ng_image_save) /\ ~mkdir_ok
        THEN [raised |-> TRUE, why |-> "makedirs", store |-> store2,
              result |-> NoResult, used |-> Profile(self), started |-> FALSE, task |-> NoTask,
              files |-> files]
        ELSE IF logged.raised
        THEN [raised |-> TRUE, why |-> "log", store |-> store2,
              result |-> NoResult, used |-> Profile(self),
              started |-> ng_save_wanted(is_ok, self.ng_image_save), task |-> task,
              files |-> logged.files]
        ELSE [raised |-> FALSE, why |-> "", store |-> store2,
              result |-> result, used |-> Profile(self),
              started |-> ng_save_wanted(is_ok, self.ng_image_save), task |-> task,
              files |-> logged.files]

(* ------------------ patchcore_api.py: engine lifecycle ----------------- *)
\* a reload that keeps serving with the previous engine object when the new load fails
reload_engine_keep(cur, curEngine, newid, sfiles, dirs, consts, file) ==
    LET r == init(new(Blank, newid), consts.DEFAULT_MODEL_NAME, sfiles, dirs, consts, file)
    IN  IF r.raised THEN [inst |-> cur, engine |-> curEngine]
        ELSE [inst |-> r.obj, engine |-> r.obj.id]

\* a reload done in place on the existing object, which stays in use when the load fails
reload_engine_inplace(cur, curEngine, newid, sfiles, dirs, consts, file) ==
    LET r == init([new(cur, newid) EXCEPT !.initialized = FALSE],
                  consts.DEFAULT_MODEL_NAME, sfiles, dirs, consts, file)
    IN  IF r.raised /\ curEngine = 0 THEN [inst |-> r.obj, engine |-> 0]
        ELSE [inst |-> r.obj, engine |-> r.obj.id]

\* a reload whose new object takes over the cache of the object it replaces
reload_engine_keep_cache(cur, curEngine, newid, sfiles, dirs, consts, file) ==
    LET r == init(new(Blank, newid), consts.DEFAULT_MODEL_NAME, sfiles, dirs, consts, file)
    IN  IF r.raised THEN [inst |-> r.obj, engine |-> 0]
        ELSE [inst |-> [r.obj EXCEPT !.image_store = cur.image_store], engine |-> r.obj.id]

\* a reload that does not reset the class's _instance before it constructs
reload_engine_no_reset(cur, curEngine, newid, sfiles, dirs, consts, file) ==
    LET r == init(new(cur, newid), consts.DEFAULT_MODEL_NAME, sfiles, dirs, consts, file)
    IN  IF r.raised THEN [inst |-> r.obj, engine |-> 0]
        ELSE [inst |-> r.obj, engine |-> r.obj.id]

\* reload_engine: _instance = None, then a new object is constructed for
\* env_loader.DEFAULT_MODEL_NAME; any exception leaves engine = None
reload_engine(cur, curEngine, newid, sfiles, dirs, consts, file) ==
    LET r == init(new(Blank, newid), consts.DEFAULT_MODEL_NAME, sfiles, dirs, consts, file)
    IN  IF r.raised THEN [inst |-> r.obj, engine |-> 0]
        ELSE [inst |-> r.obj, engine |-> r.obj.id]

(* ------------------------------ the state ------------------------------ *)
Reqs == {"r1"}
ImgPx == {[i \in Cells |-> 1], [i \in Cells |-> IF i = 1 THEN 1 ELSE 3]}
Images == {Img(px) : px \in ImgPx}
Garbage == [kind |-> "garbage", px |-> <<>>, heat |-> <<>>]
Uploads == Images \cup {Garbage}

NoResp == [status |-> 0, error |-> "", result |-> NoResult, used |-> NoProfile, by |-> 0]
IdleReq == [st |-> "idle", upload |-> NoImage, seen |-> 0, resp |-> NoResp]

\* the corpus images and the files run_creator writes
CorpusNames == {"a.png", "b.png"}
ArtifactFiles == Needed("compressed") \cup Needed("raw")
IdleBuild == [pc |-> "idle", paths |-> {}, dir0 |-> [f \in ArtifactFiles |-> 0], fmt |-> ""]

\* the threads that call the engine's cache methods, and the locals of one call:
\* d is the OrderedDict object loaded from self.image_store (0: none loaded yet)
Threads == {"t1", "t2"}
IdleThr ==
    [op |-> "idle", pc |-> "done", key |-> <<"", "", 0>>, image |-> NoImage, d |-> 0,
     image_out |-> NoImage, ids |-> <<>>, raised |-> FALSE,
     seen0 |-> <<>>, clr0 |-> 0, mut |-> FALSE]

CompleteDir(b) == [files |-> Needed("compressed"), build |-> b]

InitEnvWith(f, lost, imported, pts) ==
    /\ envFile = f
    /\ envConst = IF imported THEN EnvConstants(f) ELSE EnvDefaults
    /\ settings = [m \in Models |->
                      IF m = "B" THEN SettingsFile(2, 2, 3, FALSE, 1, FALSE)
                      ELSE [SettingsFile(1, 1, 4, TRUE, 2, FALSE)
                               EXCEPT !.AFFINE_POINTS = pts]]
    /\ disk = [m \in Models |->
                  [CompleteDir(IF m = "B" THEN 2 ELSE 1) EXCEPT !.files = @ \ lost]]
    /\ booted = imported
    /\ inst = Blank
    /\ engine = 0
    /\ reqs = [r \in Reqs |-> IdleReq]
    /\ tasks = <<>>
    /\ ngFiles = {} /\ logs = NoLogs /\ apilog = <<>>
    /\ errlog = 0
    /\ hist = [i \in 1..(MaxOps + 1) |-> NoProfile]
    /\ objs = 0
    /\ nops = 0

\* the process is started with any of the .env files, with or without pixel_stats.pkl, and
\* with four or three AFFINE_POINTS in the settings of the models other than B
InitEnv ==
    \E f \in EnvFiles, lost \in {{}, {"pixel_stats.pkl"}}, pts \in {4, 3} :
        InitEnvWith(f, lost, FALSE, pts)

InitDecide ==
    /\ dz = [i \in Cells |-> 0]
    /\ dthr = [z_score |-> 0, z_area |-> 0, z_max |-> 0]
    /\ dres = [done |-> FALSE, stats |-> NoStats, label |-> ""]

InitCache ==
    /\ puts = <<>>
    /\ pre = <<>>
    /\ ret = [op |-> "none", key |-> <<"", "", 0>>, image |-> NoImage, ids |-> <<>>]

\* no thread is inside a cache method, no OrderedDict has been replaced
InitThreads ==
    /\ detached = <<>>
    /\ thr = [t \in Threads |-> IdleThr]
    /\ tops = 0

\* run_creator is not running; the corpus holds its images and the model directory
\* holds the files of the build the engine loads
InitBuild ==
    /\ corpus = [n \in CorpusNames |-> "ok"]
    /\ built = [f \in ArtifactFiles |-> IF f \in Needed("compressed") THEN 1 ELSE 0]
    /\ bld = IdleBuild

NotValidated == [done |-> FALSE, ok |-> FALSE, errors |-> <<>>]

\* a set of patch vectors and the space they are in: "feature" (the model's output) or
\* "reduced" (after pca.transform)
Bank(space, vals) == [space |-> space, vals |-> vals]
NoBank == Bank("none", <<>>)
BankFiles == {"memory_bank_compressed.pkl", "memory_bank.pkl"}

\* no memory bank has been built for the model, whose settings give SAVE_FORMAT fmt
NoCalibration(fmt) ==
    [pc |-> "idle", fmt |-> fmt, runs |-> 0, files |-> [f \in BankFiles |-> NoBank],
     scored |-> NoBank, loaded |-> NoBank]

\* the API client before predict is called
IdleClient == [pc |-> "idle", retries |-> 0, retry_delay |-> 0, attempt |-> 0,
               outs |-> <<>>, waited |-> 0, ret |-> ""]

\* no validation has been asked for, no client call made
InitAux ==
    /\ vmod = [n \in RequiredNames |-> "ok"]
    /\ vres = NotValidated
    /\ cli = IdleClient
    /\ cal = NoCalibration("compressed")

Init == InitEnv /\ InitDecide /\ InitCache /\ InitThreads /\ InitBuild /\ InitAux

decideVars == <<dz, dthr, dres>>
thrVars == <<detached, thr, tops>>
bldVars == <<corpus, built, bld>>
auxVars == <<vmod, vres, cli, cal>>
cacheVars == <<puts, pre, ret>>
envVars == <<envFile, settings, disk>>

(* ------------------------ the API process's steps ---------------------- *)
\* the engine's lifecycle step shared by the import and /engine/restart
DoReload(consts, file) ==
    LET r == reload_engine(inst, engine, objs + 1, settings, disk, consts, file)
    IN  /\ inst' = r.inst
        /\ engine' = r.engine
        /\ objs' = objs + 1
        /\ hist' = IF r.inst.stage = "ready" /\ r.engine # 0
                   THEN [hist EXCEPT ![r.engine] = Profile(r.inst)] ELSE hist

\* import of patchcore_api: env_loader makes the .env file if it can, reads the
\* environment into its constants, and reload_engine() runs
Boot ==
    /\ ~booted
    /\ booted' = TRUE
    /\ \E example \in EnvFiles :
           LET f == make_env_file(envFile, example)
           IN  /\ envFile' = f
               /\ envConst' = EnvConstants(f)
               /\ DoReload(EnvConstants(f), f)
    /\ UNCHANGED <<auxVars, apilog, logs, bldVars, thrVars, decideVars, cacheVars, settings, disk, reqs, tasks, ngFiles, errlog, nops>>

\* POST /engine/restart?execute=true
Restart ==
    /\ booted
    /\ nops < MaxOps
    /\ nops' = nops + 1
    /\ DoReload(envConst, envFile)
    /\ UNCHANGED <<auxVars, apilog, logs, bldVars, thrVars, decideVars, cacheVars, envVars, booted, envConst, reqs, tasks, ngFiles,
                   errlog>>

\* /engine/predict up to "await file.read()": the engine_required check
ReqStart(r, upload) ==
    /\ booted
    /\ reqs[r].st # "reading"
    /\ IF engine = 0
       THEN /\ reqs' = [reqs EXCEPT ![r] = [st |-> "done", upload |-> upload, seen |-> 0,
                           resp |-> [NoResp EXCEPT !.status = 503,
                                                   !.error = "Engine not initialized"]]]
            /\ nops' = nops
       ELSE /\ nops < MaxOps
            /\ reqs' = [reqs EXCEPT ![r] = [st |-> "reading", upload |-> upload,
                                            seen |-> engine, resp |-> NoResp]]
            /\ nops' = nops + 1
    /\ UNCHANGED <<auxVars, apilog, logs, bldVars, thrVars, decideVars, cacheVars, envVars, booted, envConst, inst, engine, tasks,
                   ngFiles, errlog, hist, objs>>

\* /engine/predict after the read: decode, engine.predict, response; every exception is a 500
ReqFinish(r, suffix, mkdir_ok, log) ==
    /\ reqs[r].st = "reading"
    /\ LET up == reqs[r].upload
           p == predict(inst, up, suffix, mkdir_ok, log, logs)
       IN  IF up.kind = "garbage"
           THEN /\ reqs' = [reqs EXCEPT ![r].st = "done",
                                ![r].resp = [NoResp EXCEPT !.status = 500, !.error = "decode"]]
                /\ apilog' = Append(apilog, "decode")
                /\ UNCHANGED <<inst, tasks, logs>>
           ELSE IF engine = 0
           THEN /\ reqs' = [reqs EXCEPT ![r].st = "done",
                                ![r].resp = [NoResp EXCEPT !.status = 500, !.error = "NoneType"]]
                /\ apilog' = Append(apilog, "NoneType")
                /\ UNCHANGED <<inst, tasks, logs>>
           ELSE /\ inst' = [inst EXCEPT !.image_store = p.store]
                /\ tasks' = IF p.started THEN Append(tasks, p.task) ELSE tasks
                /\ logs' = p.files
                /\ apilog' = IF p.raised THEN Append(apilog, p.why) ELSE apilog
                /\ reqs' = [reqs EXCEPT ![r].st = "done",
                                ![r].resp = IF p.raised
                                            THEN [NoResp EXCEPT !.status = 500, !.error = p.why,
                                                                !.by = engine]
                                            ELSE [status |-> 200, error |-> "",
                                                  result |-> p.result, used |-> p.used,
                                                  by |-> engine]]
    /\ UNCHANGED <<auxVars, bldVars, thrVars, decideVars, cacheVars, envVars, booted, envConst, engine,
                   ngFiles, errlog, hist, objs, nops>>

\* the thread started by _save_ng_images_async runs: both files written, or cv2.imwrite
\* raises (logged), or cv2.imwrite returns False without raising (nothing logged)
SaveRun(i, outcome) ==
    /\ i \in DOMAIN tasks
    /\ tasks' = [j \in 1..(Len(tasks) - 1) |-> IF j < i THEN tasks[j] ELSE tasks[j + 1]]
    /\ ngFiles' = IF outcome = "written"
                  THEN ngFiles \cup {<<tasks[i].image_id, "overlay">>,
                                     <<tasks[i].image_id, "original">>}
                  ELSE ngFiles
    /\ errlog' = IF outcome = "raised" THEN errlog + 1 ELSE errlog
    /\ UNCHANGED <<auxVars, apilog, logs, bldVars, thrVars, decideVars, cacheVars, envVars, booted, envConst, inst, engine, reqs,
                   hist, objs, nops>>

\* POST /images/clear?execute=true
ClearCache ==
    /\ booted
    /\ engine # 0
    /\ inst.image_store # <<>>
    /\ inst' = [inst EXCEPT !.image_store = clear_store_image]
    /\ UNCHANGED <<auxVars, apilog, logs, bldVars, thrVars, decideVars, cacheVars, envVars, booted, envConst, engine, reqs, tasks,
                   ngFiles, errlog, hist, objs, nops>>

(* ----------------------- the files on disk change ---------------------- *)
\* the model whose files the running process reads; the files of other models are
\* never opened by it
Bound == envConst.DEFAULT_MODEL_NAME

EditEnv(f) ==
    /\ nops < MaxOps
    /\ f # envFile
    /\ envFile' = f
    /\ nops' = nops + 1
    /\ UNCHANGED <<auxVars, apilog, logs, bldVars, thrVars, decideVars, cacheVars, settings, disk, booted, envConst, inst, engine, reqs,
                   tasks, ngFiles, errlog, hist, objs>>

EditSettings(m, f) ==
    /\ nops < MaxOps
    /\ f # settings[m]
    /\ settings' = [settings EXCEPT ![m] = f]
    /\ nops' = nops + 1
    /\ UNCHANGED <<auxVars, apilog, logs, bldVars, thrVars, decideVars, cacheVars, envFile, disk, booted, envConst, inst, engine, reqs,
                   tasks, ngFiles, errlog, hist, objs>>

\* an artifact file is deleted or becomes unreadable
RemoveArtifact(m, file) ==
    /\ nops < MaxOps
    /\ file \in disk[m].files
    /\ disk' = [disk EXCEPT ![m].files = @ \ {file}]
    /\ nops' = nops + 1
    /\ UNCHANGED <<auxVars, apilog, logs, bldVars, thrVars, decideVars, cacheVars, envFile, settings, booted, envConst, inst, engine,
                   reqs, tasks, ngFiles, errlog, hist, objs>>

\* the calibration profile of a model is rebuilt
Rebuild(m, b) ==
    /\ nops < MaxOps
    /\ disk[m] # CompleteDir(b)
    /\ disk' = [disk EXCEPT ![m] = CompleteDir(b)]
    /\ nops' = nops + 1
    /\ UNCHANGED <<auxVars, apilog, logs, bldVars, thrVars, decideVars, cacheVars, envFile, settings, booted, envConst, inst, engine,
                   reqs, tasks, ngFiles, errlog, hist, objs>>

Next ==
    \/ Boot
    \/ Restart
    \/ \E r \in Reqs, u \in Uploads : ReqStart(r, u)
    \/ \E r \in Reqs, n \in 1..MaxIds, mk \in BOOLEAN, log \in {"ok", "no_dir", "no_ng"} :
           ReqFinish(r, n, mk, log)
    \/ \E i \in 1..MaxOps, o \in {"written", "raised", "false"} : SaveRun(i, o)
    \/ ClearCache
    \/ booted /\ \E f \in EnvFiles : EditEnv(f)
    \/ booted /\ \E f \in SettingsFiles : EditSettings(Bound, f)
    \/ booted /\ \E f \in Needed("compressed") : RemoveArtifact(Bound, f)
    \/ booted /\ \E b \in Builds : Rebuild(Bound, b)

Spec == Init /\ [][Next]_vars

(* ------------------ the decision policy, input by input ---------------- *)
\* evaluate_z_score_map and is_ok_z applied as predict lines 350-357 apply them
Decide ==
    /\ ~dres.done
    /\ LET stats == evaluate_z_score_map(dz, dthr.z_score)
       IN  dres' = [done |-> TRUE, stats |-> stats,
                    label |-> label_str(is_ok_z(stats, dthr.z_area, dthr.z_max))]
    /\ UNCHANGED <<auxVars, apilog, logs, bldVars, thrVars, dz, dthr, cacheVars, envVars, booted, envConst, inst, engine, reqs, tasks,
                   ngFiles, errlog, hist, objs, nops>>

NextDecide == Decide

\* every Z-score map and every threshold triple of the bounded sets
InitDecideAll ==
    /\ InitEnvWith(NoEnvFile, {}, FALSE, 4)
    /\ InitCache
    /\ InitThreads
    /\ InitBuild
    /\ InitAux
    /\ dz \in ZMaps
    /\ dthr \in Thresholds
    /\ dres = [done |-> FALSE, stats |-> NoStats, label |-> ""]

SpecDecide == InitDecideAll /\ [][NextDecide]_vars

(* --------------- the result cache of one engine, op by op -------------- *)
MaxPuts == MaxCache + 2
CacheKeys == {<<"org", "OK", n>> : n \in 1..(MaxCache + 2)}
NoKey == <<"", "", 0>>
NoRet == [op |-> "none", key |-> NoKey, image |-> NoImage, ids |-> <<>>]

\* an engine object as __init__ leaves it, with the given cache limit
ReadyEngine(limit) ==
    [Blank EXCEPT !.id = 1, !.initialized = TRUE, !.stage = "ready", !.max_images = limit,
                  !.model_name = "example_model", !.affine_points = 4, !.image_size = NCells]

Put(k) ==
    /\ Len(puts) < MaxPuts
    /\ inst' = [inst EXCEPT !.image_store =
                   store_image(inst.image_store, inst.max_images, k,
                               Img([i \in Cells |-> Len(puts) + 1]))]
    /\ puts' = Append(puts, k)
    /\ pre' = Append(pre, inst.image_store)
    /\ ret' = [NoRet EXCEPT !.op = "put", !.key = k]
    /\ UNCHANGED <<auxVars, apilog, logs, bldVars, thrVars, decideVars, envVars, booted, envConst, engine, reqs, tasks, ngFiles, errlog,
                   hist, objs, nops>>

Get(k) ==
    /\ ret' = [NoRet EXCEPT !.op = "get", !.key = k,
                            !.image = get_image_by_id(inst.image_store, k)]
    /\ UNCHANGED <<auxVars, apilog, logs, bldVars, thrVars, decideVars, envVars, booted, envConst, inst, engine, reqs, tasks, ngFiles,
                   errlog, puts, pre, hist, objs, nops>>

List ==
    /\ ret' = [NoRet EXCEPT !.op = "list", !.ids = get_store_image_list(inst.image_store)]
    /\ UNCHANGED <<auxVars, apilog, logs, bldVars, thrVars, decideVars, envVars, booted, envConst, inst, engine, reqs, tasks, ngFiles,
                   errlog, puts, pre, hist, objs, nops>>

Clear ==
    /\ inst' = [inst EXCEPT !.image_store = clear_store_image]
    /\ puts' = <<>>
    /\ pre' = <<>>
    /\ ret' = [NoRet EXCEPT !.op = "clear"]
    /\ UNCHANGED <<auxVars, apilog, logs, bldVars, thrVars, decideVars, envVars, booted, envConst, engine, reqs, tasks, ngFiles, errlog,
                   hist, objs, nops>>

NextCache ==
    \/ \E k \in CacheKeys : Put(k)
    \/ \E k \in CacheKeys : Get(k)
    \/ List
    \/ Clear

\* one constructed engine, with every cache limit up to MaxCache
InitCacheAll ==
    /\ InitDecide
    /\ envFile = NoEnvFile /\ envConst = EnvDefaults
    /\ settings = [m \in Models |-> SettingsFile(1, 1, 4, TRUE, 2, FALSE)]
    /\ disk = [m \in Models |-> CompleteDir(1)]
    /\ booted = TRUE
    /\ \E limit \in 0..MaxCache : inst = ReadyEngine(limit)
    /\ engine = 1
    /\ reqs = [r \in Reqs |-> IdleReq]
    /\ tasks = <<>> /\ ngFiles = {} /\ logs = NoLogs /\ apilog = <<>> /\ errlog = 0
    /\ hist = [i \in 1..(MaxOps + 1) |-> NoProfile]
    /\ objs = 1 /\ nops = 0
    /\ puts = <<>> /\ pre = <<>> /\ ret = NoRet
    /\ InitThreads
    /\ InitBuild
    /\ InitAux

SpecCache == InitCacheAll /\ [][NextCache]_vars

(* ------------------ one engine, predict call by predict call ---------- *)
MaxPredicts == 4   \* predict calls made on the engine

\* engine.predict(image) called by the one thread that uses the engine; an exception
\* leaves what was done before it
PredictCall(image, suffix, mkdir_ok, log) ==
    /\ engine # 0
    /\ nops < MaxPredicts
    /\ LET p == predict(inst, image, suffix, mkdir_ok, log, logs)
       IN  /\ inst' = [inst EXCEPT !.image_store = p.store]
           /\ tasks' = IF p.started THEN Append(tasks, p.task) ELSE tasks
           /\ logs' = p.files
           /\ ret' = [NoRet EXCEPT !.op = IF p.raised THEN "raised" ELSE "predict",
                                   !.key = <<"org", p.task.image_id[1], p.task.image_id[2]>>]
    /\ nops' = nops + 1
    /\ UNCHANGED <<auxVars, apilog, bldVars, thrVars, decideVars, envVars, booted, envConst,
                   engine, reqs, ngFiles, errlog, puts, pre, hist, objs>>

NextServe ==
    \/ \E image \in Images, n \in 1..(MaxIds + 1), mk \in BOOLEAN,
          log \in {"ok", "no_dir"} : PredictCall(image, n, mk, log)
    \/ ClearCache

\* the engine constructed for the example model, with every cache limit up to
\* MaxCache + 1, with and without ng_image_save
InitServeAll ==
    /\ InitDecide
    /\ envFile = NoEnvFile /\ envConst = EnvDefaults
    /\ settings = [m \in Models |-> SettingsFile(1, 1, 4, TRUE, 2, FALSE)]
    /\ disk = [m \in Models |-> CompleteDir(1)]
    /\ booted = TRUE
    /\ \E limit \in 0..(MaxCache + 1), ng \in BOOLEAN :
           inst = [init(new(Blank, 1), "example_model", settings, disk, envConst, envFile).obj
                      EXCEPT !.max_images = limit, !.ng_image_save = ng]
    /\ engine = 1
    /\ reqs = [r \in Reqs |-> IdleReq]
    /\ tasks = <<>> /\ ngFiles = {} /\ logs = NoLogs /\ apilog = <<>> /\ errlog = 0
    /\ hist = [i \in 1..(MaxOps + 1) |-> NoProfile]
    /\ objs = 1 /\ nops = 0
    /\ puts = <<>> /\ pre = <<>> /\ ret = NoRet
    /\ InitThreads
    /\ InitBuild
    /\ InitAux

SpecServe == InitServeAll /\ [][NextServe]_vars

(* ------------- the engine class, construction by construction ---------- *)
\* PatchCoreInferenceEngine(model_name) called by any code of the process: __new__, then
\* __init__ on the object it returned; engine is the reference the caller is left with
Construct(m) ==
    /\ nops < MaxOps
    /\ nops' = nops + 1
    /\ LET r == init(new(inst, objs + 1), m, settings, disk, envConst, envFile)
       IN  /\ inst' = r.obj
           /\ engine' = IF r.raised THEN 0 ELSE r.obj.id
           /\ objs' = IF inst.id = 0 THEN objs + 1 ELSE objs
           /\ hist' = IF ~r.raised /\ ~inst.initialized
                      THEN [hist EXCEPT ![r.obj.id] = Profile(r.obj)] ELSE hist
    /\ ret' = [NoRet EXCEPT !.op = "construct", !.key = <<m, "", 0>>]
    /\ UNCHANGED <<auxVars, apilog, logs, bldVars, thrVars, decideVars, envVars, booted, envConst, reqs, tasks, ngFiles, errlog,
                   puts, pre>>

\* the constructed engine caches one image (_store_image)
StoreOne ==
    /\ engine # 0
    /\ puts = <<>>
    /\ Put(<<"org", "OK", 1>>)

NextClass ==
    \/ \E m \in Models : Construct(m)
    \/ StoreOne
    \/ \E f \in EnvFiles : EditEnv(f)
    \/ \E m \in Models, f \in SettingsFiles : EditSettings(m, f)
    \/ \E m \in Models, f \in Needed("compressed") : RemoveArtifact(m, f)
    \/ \E m \in Models, b \in Builds : Rebuild(m, b)

\* env_loader imported, no engine object constructed yet
InitClass ==
    /\ InitDecide
    /\ InitCache
    /\ InitThreads
    /\ InitBuild
    /\ InitAux
    /\ \E f \in EnvFiles : InitEnvWith(f, {}, TRUE, 4)

SpecClass == InitClass /\ [][NextClass]_vars

(* ------- the cache methods called from threads, bytecode step by step --- *)
MaxCalls == 3
ThrKeys == {<<"org", "OK", n>> : n \in 1..2}

\* OrderedDict objects are numbered in the order image_store was bound to them; the one
\* bound now is the last, the earlier ones are kept as long as a thread may hold them
Current == Len(detached) + 1
Dict(d) == IF d = Current THEN inst.image_store ELSE detached[d]

\* a clear that empties the bound object entry by entry instead of replacing it
setattr_in_place(olds, cur, value) ==
    [detached |-> olds, image_store |-> IF cur = <<>> THEN cur ELSE Tail(cur)]

\* self.image_store = value: the attribute is rebound, the object bound before is untouched
setattr_image_store(olds, cur, value) ==
    [detached |-> Append(olds, cur), image_store |-> value]

\* a mutation of the object d (the bound one or an earlier one)
WriteDict(d, contents) ==
    /\ inst' = IF d = Current THEN [inst EXCEPT !.image_store = contents] ELSE inst
    /\ detached' = IF d = Current THEN detached ELSE [detached EXCEPT ![d] = contents]

\* thread t moves on; with touched, the calls of the other threads that are under way
\* are marked as having run beside a mutation of a dict
Moved(t, rec, touched) ==
    thr' = [u \in Threads |->
               IF u = t THEN rec
               ELSE IF touched /\ thr[u].pc # "done" THEN [thr[u] EXCEPT !.mut = TRUE]
               ELSE thr[u]]

FirstPc(op) == IF op = "clear" THEN "store" ELSE IF op = "put" THEN "load1" ELSE "load"
AfterLoad(pc) ==
    IF pc = "load" THEN "call" ELSE IF pc = "load1" THEN "setitem"
    ELSE IF pc = "load2" THEN "len" ELSE "popitem"

\* a thread enters get_image_by_id, get_store_image_list, clear_store_image or _store_image
Call(t, op, k) ==
    /\ thr[t].pc = "done"
    /\ tops < MaxCalls
    /\ tops' = tops + 1
    /\ Moved(t, [IdleThr EXCEPT !.op = op, !.pc = FirstPc(op),
                                !.key = IF op \in {"get", "put"} THEN k ELSE IdleThr.key,
                                !.image = IF op = "put" THEN Img([i \in Cells |-> tops + 1])
                                          ELSE NoImage,
                                !.seen0 = inst.image_store, !.clr0 = Len(detached)], FALSE)
    /\ UNCHANGED <<auxVars, apilog, logs, bldVars, decideVars, cacheVars, envVars, booted, envConst, inst, engine, reqs, tasks,
                   ngFiles, errlog, hist, objs, nops, detached>>

\* LOAD_ATTR self.image_store: the thread now holds the object bound at this moment
Load(t) ==
    /\ thr[t].pc \in {"load", "load1", "load2", "load3"}
    /\ Moved(t, [thr[t] EXCEPT !.d = Current, !.pc = AfterLoad(thr[t].pc)], FALSE)
    /\ UNCHANGED <<auxVars, apilog, logs, bldVars, decideVars, cacheVars, envVars, booted, envConst, inst, engine, reqs, tasks,
                   ngFiles, errlog, hist, objs, nops, detached, tops>>

\* get_image_by_id: .get(image_id) on the object held
GetCall(t) ==
    /\ thr[t].op = "get" /\ thr[t].pc = "call"
    /\ Moved(t, [thr[t] EXCEPT !.pc = "done",
                               !.image_out = get_image_by_id(Dict(thr[t].d), thr[t].key)],
             FALSE)
    /\ UNCHANGED <<auxVars, apilog, logs, bldVars, decideVars, cacheVars, envVars, booted, envConst, inst, engine, reqs, tasks,
                   ngFiles, errlog, hist, objs, nops, detached, tops>>

\* get_store_image_list: list(reversed(.keys())) on the object held
ListCall(t) ==
    /\ thr[t].op = "list" /\ thr[t].pc = "call"
    /\ Moved(t, [thr[t] EXCEPT !.pc = "done",
                               !.ids = get_store_image_list(Dict(thr[t].d))], FALSE)
    /\ UNCHANGED <<auxVars, apilog, logs, bldVars, decideVars, cacheVars, envVars, booted, envConst, inst, engine, reqs, tasks,
                   ngFiles, errlog, hist, objs, nops, detached, tops>>

\* clear_store_image: self.image_store = OrderedDict()
ClearStore(t) ==
    /\ thr[t].op = "clear" /\ thr[t].pc = "store"
    /\ LET r == setattr_image_store(detached, inst.image_store, clear_store_image)
       IN  /\ detached' = r.detached
           /\ inst' = [inst EXCEPT !.image_store = r.image_store]
    /\ Moved(t, [thr[t] EXCEPT !.pc = "done"], FALSE)
    /\ UNCHANGED <<auxVars, apilog, logs, bldVars, decideVars, cacheVars, envVars, booted, envConst, engine, reqs, tasks,
                   ngFiles, errlog, hist, objs, nops, tops>>

\* _store_image line 186: STORE_SUBSCR on the object held
PutSetItem(t) ==
    /\ thr[t].op = "put" /\ thr[t].pc = "setitem"
    /\ WriteDict(thr[t].d, SetItem(Dict(thr[t].d), thr[t].key, thr[t].image))
    /\ Moved(t, [thr[t] EXCEPT !.pc = "load2"], TRUE)
    /\ UNCHANGED <<auxVars, apilog, logs, bldVars, decideVars, cacheVars, envVars, booted, envConst, engine, reqs, tasks,
                   ngFiles, errlog, hist, objs, nops, tops>>

\* _store_image line 187: len(...) > self.max_images on the object held
PutLen(t) ==
    /\ thr[t].op = "put" /\ thr[t].pc = "len"
    /\ Moved(t, [thr[t] EXCEPT !.pc = IF Len(Dict(thr[t].d)) > inst.max_images
                                      THEN "load3" ELSE "done"], FALSE)
    /\ UNCHANGED <<auxVars, apilog, logs, bldVars, decideVars, cacheVars, envVars, booted, envConst, inst, engine, reqs, tasks,
                   ngFiles, errlog, hist, objs, nops, detached, tops>>

\* _store_image line 188: popitem(last=False) on the object held; KeyError when it is empty
PutPop(t) ==
    /\ thr[t].op = "put" /\ thr[t].pc = "popitem"
    /\ IF Dict(thr[t].d) = <<>>
       THEN /\ Moved(t, [thr[t] EXCEPT !.pc = "done", !.raised = TRUE], FALSE)
            /\ UNCHANGED <<inst, detached>>
       ELSE /\ WriteDict(thr[t].d, Tail(Dict(thr[t].d)))
            /\ Moved(t, [thr[t] EXCEPT !.pc = "done"], TRUE)
    /\ UNCHANGED <<auxVars, apilog, logs, bldVars, decideVars, cacheVars, envVars, booted, envConst, engine, reqs, tasks,
                   ngFiles, errlog, hist, objs, nops, tops>>

NextThreads ==
    \/ \E t \in Threads, op \in {"get", "list", "clear", "put"}, k \in ThrKeys : Call(t, op, k)
    \/ \E t \in Threads : Load(t)
    \/ \E t \in Threads : GetCall(t)
    \/ \E t \in Threads : ListCall(t)
    \/ \E t \in Threads : ClearStore(t)
    \/ \E t \in Threads : PutSetItem(t)
    \/ \E t \in Threads : PutLen(t)
    \/ \E t \in Threads : PutPop(t)

\* one constructed engine with a cache limit of 1..MaxCache, its cache holding one entry
InitThreadsAll ==
    /\ InitDecide
    /\ envFile = NoEnvFile /\ envConst = EnvDefaults
    /\ settings = [m \in Models |-> SettingsFile(1, 1, 4, TRUE, 2, FALSE)]
    /\ disk = [m \in Models |-> CompleteDir(1)]
    /\ booted = TRUE
    /\ \E limit \in 1..MaxCache :
           inst = [ReadyEngine(limit) EXCEPT
                      !.image_store = <<<< <<"org", "OK", 1>>, Img([i \in Cells |-> 0]) >>>>]
    /\ engine = 1
    /\ reqs = [r \in Reqs |-> IdleReq]
    /\ tasks = <<>> /\ ngFiles = {} /\ logs = NoLogs /\ apilog = <<>> /\ errlog = 0
    /\ hist = [i \in 1..(MaxOps + 1) |-> NoProfile]
    /\ objs = 1 /\ nops = 0
    /\ puts = <<>> /\ pre = <<>> /\ ret = NoRet
    /\ InitThreads
    /\ InitBuild
    /\ InitAux

SpecThreads == InitThreadsAll /\ [][NextThreads]_vars

(* ------------- settings_loader.py: validation of a settings file ------- *)
\* loader.validate_model_settings() is called and returns
Validate ==
    /\ ~vres.done
    /\ LET r == validate_model_settings(vmod)
       IN  vres' = [done |-> TRUE, ok |-> r.ok, errors |-> r.errors]
    /\ UNCHANGED <<apilog, logs, bldVars, thrVars, decideVars, cacheVars, envVars, booted,
                   envConst, inst, engine, reqs, tasks, ngFiles, errlog, hist, objs, nops, vmod, cli, cal>>

NextValidate == Validate

\* every settings module of the value kinds
InitValidateAll ==
    /\ InitEnvWith(NoEnvFile, {}, FALSE, 4)
    /\ InitDecide
    /\ InitCache
    /\ InitThreads
    /\ InitBuild
    /\ vmod \in [RequiredNames -> ValueKinds]
    /\ vres = NotValidated
    /\ cli = IdleClient
    /\ cal = NoCalibration("compressed")

SpecValidate == InitValidateAll /\ [][NextValidate]_vars

(* ------------- patchcore_api_client.py: predict with retries ----------- *)
MaxRetries == 4    \* largest retries argument tried
Delays == {1, 2}   \* retry_delay values tried
\* what one session.post / raise_for_status / json gives: a response, or one of the
\* requests.exceptions.RequestException cases
PostOutcomes == {"ok", "http_error", "connection"}

\* a handler that sleeps after every failed attempt
after_failure_always_sleep(attempt, retries) == "sleep"

\* the except clause, lines 228-232: sleep when attempt < retries, else only print
after_failure(attempt, retries) == IF attempt < retries THEN "sleep" ELSE "next"

\* the for statement over range(1, retries + 1): the body runs for attempt, or the loop is
\* over and predict prints and returns None (lines 234-235)
for_attempt(c, attempt) ==
    IF attempt <= c.retries
    THEN [c EXCEPT !.pc = "post", !.attempt = attempt]
    ELSE [c EXCEPT !.pc = "done", !.ret = "None"]

\* client.predict(image, retries=..., retry_delay=...) is called: lines 216-221
ClientPredict(retries, retry_delay) ==
    /\ cli.pc = "idle"
    /\ cli' = for_attempt([cli EXCEPT !.retries = retries, !.retry_delay = retry_delay], 1)
    /\ UNCHANGED <<apilog, logs, bldVars, thrVars, decideVars, cacheVars, envVars, booted,
                   envConst, inst, engine, reqs, tasks, ngFiles, errlog, hist, objs, nops,
                   vmod, vres, cal>>

\* one pass through the try block, lines 222-232: the request is sent; a response is
\* returned, or the exception is handled
ClientPost(out) ==
    /\ cli.pc = "post"
    /\ LET c == [cli EXCEPT !.outs = Append(cli.outs, out)]
       IN  cli' = IF out = "ok" THEN [c EXCEPT !.pc = "done", !.ret = "response"]
                  ELSE IF after_failure(c.attempt, c.retries) = "sleep"
                  THEN [c EXCEPT !.pc = "sleep"]
                  ELSE for_attempt(c, c.attempt + 1)
    /\ UNCHANGED <<apilog, logs, bldVars, thrVars, decideVars, cacheVars, envVars, booted,
                   envConst, inst, engine, reqs, tasks, ngFiles, errlog, hist, objs, nops,
                   vmod, vres, cal>>

\* time.sleep(retry_delay) returns, line 231, and the loop goes on
ClientSleep ==
    /\ cli.pc = "sleep"
    /\ cli' = for_attempt([cli EXCEPT !.waited = cli.waited + cli.retry_delay],
                          cli.attempt + 1)
    /\ UNCHANGED <<apilog, logs, bldVars, thrVars, decideVars, cacheVars, envVars, booted,
                   envConst, inst, engine, reqs, tasks, ngFiles, errlog, hist, objs, nops,
                   vmod, vres, cal>>

NextClient ==
    \/ \E n \in 0..MaxRetries, d \in Delays : ClientPredict(n, d)
    \/ \E out \in PostOutcomes : ClientPost(out)
    \/ ClientSleep

InitClientAll ==
    /\ InitEnvWith(NoEnvFile, {}, FALSE, 4)
    /\ InitDecide
    /\ InitCache
    /\ InitThreads
    /\ InitBuild
    /\ InitAux

SpecClient == InitClientAll /\ [][NextClient]_vars

\* every post comes back within the session's timeout (a response or an exception) and
\* every sleep returns, so a call that has begun keeps taking its steps
SpecClientLive == SpecClient /\ WF_vars(NextClient)

(* ----------- create.py, model_loader.py: the memory bank's format ------- *)
MaxFeature == 3    \* largest value of a patch feature
MaxRuns == 2       \* runs of run_creator
\* the SAVE_FORMAT values validate_model_settings accepts (settings_loader.py 184-186)
AcceptedFormats == {"compressed", "full"}
\* the patch vectors sampled from the corpus (create.py 111-126)
RawBanks == {Bank("feature", <<a, b>>) : a, b \in 0..MaxFeature}

\* PCA(n_components=PCA_VARIANCE).fit_transform: the vectors are centred on their mean and
\* projected onto the components kept
pca_fit_transform(bank) ==
    Bank("reduced", [i \in DOMAIN bank.vals |-> bank.vals[i] - Mean(bank.vals)])

\* create.py 130-135: what is pickled, and under which name
saved_bank(fmt, memory_bank, memory_bank_compressed) ==
    IF fmt = "compressed" THEN memory_bank_compressed ELSE memory_bank

\* run_creator, for the memory bank: lines 126-128 (concatenate, fit_transform), 130-135
\* (the bank file), 163-167 (the scores behind pixel_mean and pixel_std are distances to
\* memory_bank_compressed.mean)
CreatorRun(memory_bank) ==
    /\ cal.runs < MaxRuns
    /\ LET memory_bank_compressed == pca_fit_transform(memory_bank)
       IN  cal' = [cal EXCEPT
                      !.pc = "built", !.runs = @ + 1,
                      !.files[bank_path(cal.fmt)] =
                          saved_bank(cal.fmt, memory_bank, memory_bank_compressed),
                      !.scored = memory_bank_compressed]
    /\ UNCHANGED <<apilog, logs, bldVars, thrVars, decideVars, cacheVars, envVars, booted,
                   envConst, inst, engine, reqs, tasks, ngFiles, errlog, hist, objs, nops,
                   vmod, vres, cli>>

\* load_model_and_assets(model_dir, save_format), for the memory bank (model_loader.py
\* 10-12); the engine's _run_model then measures distances to its mean (241-245)
EngineLoad ==
    /\ cal.pc = "built"
    /\ cal' = [cal EXCEPT !.pc = "loaded", !.loaded = cal.files[bank_path(cal.fmt)]]
    /\ UNCHANGED <<apilog, logs, bldVars, thrVars, decideVars, cacheVars, envVars, booted,
                   envConst, inst, engine, reqs, tasks, ngFiles, errlog, hist, objs, nops,
                   vmod, vres, cli>>

NextFormat ==
    \/ \E b \in RawBanks : CreatorRun(b)
    \/ EngineLoad

\* a model with each of the accepted SAVE_FORMAT values, not built yet
InitFormatAll ==
    /\ InitEnvWith(NoEnvFile, {}, FALSE, 4)
    /\ InitDecide
    /\ InitCache
    /\ InitThreads
    /\ InitBuild
    /\ vmod = [n \in RequiredNames |-> "ok"]
    /\ vres = NotValidated
    /\ cli = IdleClient
    /\ \E fmt \in AcceptedFormats : cal = NoCalibration(fmt)

SpecFormat == InitFormatAll /\ [][NextFormat]_vars

(* ------------------ create.py: the calibration builder ----------------- *)
\* the number the files written by the run that is modelled carry (the files there before
\* carry 1)
ThisRun == 2

\* run_creator lines 41-82: settings read, the .png files of the corpus listed
BuildStart(fmt) ==
    /\ bld.pc = "idle"
    /\ bld' = [pc |-> "pass1", paths |-> {n \in CorpusNames : corpus[n] # "absent"},
               dir0 |-> built, fmt |-> fmt]
    /\ UNCHANGED <<auxVars, apilog, logs, decideVars, cacheVars, envVars, thrVars, booted, envConst, inst, engine,
                   reqs, tasks, ngFiles, errlog, hist, objs, nops, corpus, built>>

\* lines 92-128: every listed image is loaded (load_image_unicode_path raises on a missing
\* or unreadable file) and np.concatenate raises on an empty list
FirstPass ==
    /\ bld.pc = "pass1"
    /\ bld' = [bld EXCEPT !.pc = IF bld.paths = {} \/ \E n \in bld.paths : corpus[n] # "ok"
                                 THEN "failed" ELSE "write"]
    /\ UNCHANGED <<auxVars, apilog, logs, decideVars, cacheVars, envVars, thrVars, booted, envConst, inst, engine,
                   reqs, tasks, ngFiles, errlog, hist, objs, nops, corpus, built>>

\* lines 130-144: the memory bank, pca.pkl and model.pt are written
WriteArtifacts ==
    /\ bld.pc = "write"
    /\ built' = [built EXCEPT ![bank_path(bld.fmt)] = ThisRun, !["pca.pkl"] = ThisRun,
                              !["model.pt"] = ThisRun]
    /\ bld' = [bld EXCEPT !.pc = "pass2"]
    /\ UNCHANGED <<auxVars, apilog, logs, decideVars, cacheVars, envVars, thrVars, booted, envConst, inst, engine,
                   reqs, tasks, ngFiles, errlog, hist, objs, nops, corpus>>

\* lines 150-177: every listed image is loaded again
SecondPass ==
    /\ bld.pc = "pass2"
    /\ bld' = [bld EXCEPT !.pc = IF \E n \in bld.paths : corpus[n] # "ok"
                                 THEN "failed" ELSE "stats"]
    /\ UNCHANGED <<auxVars, apilog, logs, decideVars, cacheVars, envVars, thrVars, booted, envConst, inst, engine,
                   reqs, tasks, ngFiles, errlog, hist, objs, nops, corpus, built>>

\* lines 179-180: pixel_stats.pkl is written
WriteStats ==
    /\ bld.pc = "stats"
    /\ built' = [built EXCEPT !["pixel_stats.pkl"] = ThisRun]
    /\ bld' = [bld EXCEPT !.pc = "done"]
    /\ UNCHANGED <<auxVars, apilog, logs, decideVars, cacheVars, envVars, thrVars, booted, envConst, inst, engine,
                   reqs, tasks, ngFiles, errlog, hist, objs, nops, corpus>>

\* a corpus image is removed, damaged, or put (back) in place
CorpusChange(n, v) ==
    /\ corpus[n] # v
    /\ corpus' = [corpus EXCEPT ![n] = v]
    /\ UNCHANGED <<auxVars, apilog, logs, decideVars, cacheVars, envVars, thrVars, booted, envConst, inst, engine,
                   reqs, tasks, ngFiles, errlog, hist, objs, nops, built, bld>>

NextBuild ==
    \/ \E fmt \in {"compressed", "raw"} : BuildStart(fmt)
    \/ FirstPass
    \/ WriteArtifacts
    \/ SecondPass
    \/ WriteStats
    \/ \E n \in CorpusNames, v \in {"ok", "bad", "absent"} : CorpusChange(n, v)

\* run_creator is about to run; the model directory is empty or holds an earlier build
InitBuildAll ==
    /\ InitEnvWith(NoEnvFile, {}, FALSE, 4)
    /\ InitDecide
    /\ InitCache
    /\ InitThreads
    /\ corpus \in [CorpusNames -> {"ok", "bad", "absent"}]
    /\ \E before \in {0, 1} :
           built = [f \in ArtifactFiles |-> IF f \in Needed("compressed") THEN before ELSE 0]
    /\ bld = IdleBuild
    /\ InitAux

SpecBuild == InitBuildAll /\ [][NextBuild]_vars

(* ============================== the claims ============================= *)

Distinct(seq, lo, hi) == \A i, j \in lo..hi : i # j => seq[i] # seq[j]

C3_PutStep ==
    LET s == inst.image_store
        s2 == inst'.image_store
        k == puts'[Len(puts')]
        evicted == (Keys(s) \cup {k}) \ Keys(s2)
        oldest == IF s # <<>> THEN s[1][1] ELSE k
    IN  /\ Len(s2) <= inst'.max_images
        /\ Len(puts') = Len(puts) + 1 =>
              /\ Cardinality(evicted) <= 1
              /\ evicted # {} => (Cardinality(Keys(s) \cup {k}) > inst.max_images
                                   /\ evicted = {oldest})
              /\ \A i \in DOMAIN s2 : s2[i][1] # k => \E j \in DOMAIN s : s2[i] = s[j]
        /\ (Len(puts') = Len(puts) /\ ret'.op # "clear") => s2 = s

\* C3: the cache never holds more than max_entries entries; a put evicts at most one
\* entry, only when the count would otherwise exceed max_entries, and then the oldest.
C3_FifoEviction == [][C3_PutStep]_vars

\* a put into a full cache of two or more entries has evicted one
C3_Witness ==
    LET n == Len(puts)
    IN  /\ n >= 1
        /\ inst.max_images >= 2
        /\ Len(pre[n]) = inst.max_images
        /\ puts[n] \notin Keys(pre[n])
        /\ Len(inst.image_store) = inst.max_images

(* ----------------------------- C4: image ids --------------------------- *)
\* the Z-score map predict computes for an upload on the engine object self
ZMapOf(self, upload) ==
    compute_z_score_map(self, resize_score_map(run_model(self, upload.px), self.image_size))

\* a predict call returns a result: both ids of the result give back the images of the call,
\* for engines whose cache limit is at least lim
C4_ReturnStep(lim) ==
    \A r \in Reqs :
        (/\ reqs[r].st = "reading"
         /\ reqs'[r].st = "done"
         /\ reqs'[r].resp.status = 200
         /\ inst.max_images >= lim) =>
            LET res == reqs'[r].resp.result
                up == reqs[r].upload
            IN  /\ get_image_by_id(inst'.image_store, res.image_id.original) = up
                /\ get_image_by_id(inst'.image_store, res.image_id.overlay)
                       = generate_overlay(up, ZMapOf(inst, up))

\* C4 as stated: right after any predict call returned a result, get(image_id.original) is
\* the input image and get(image_id.overlay) is the overlay of that call.
C4_AsStated == [][C4_ReturnStep(0)]_vars

\* C4 amended: the same, for an engine whose cache limit is at least 2.
C4_BothLive == [][C4_ReturnStep(2)]_vars

\* a predict call on the full cache (limit 2) of the first engine has returned after an
\* earlier NG call with another id, and its two entries are now the whole cache
C4_Witness ==
    \E r \in Reqs :
        /\ reqs[r].st = "done"
        /\ reqs[r].resp.status = 200
        /\ reqs[r].resp.by = engine
        /\ objs = 1
        /\ inst.max_images = 2
        /\ \E i \in DOMAIN tasks :
               <<"org", tasks[i].image_id[1], tasks[i].image_id[2]>>
                   # reqs[r].resp.result.image_id.original
        /\ get_store_image_list(inst.image_store)
               = <<reqs[r].resp.result.image_id.overlay, reqs[r].resp.result.image_id.original>>

(* ------------------------- C5: reload and predict ---------------------- *)
\* an engine object holding exactly the profile p
AsEngine(p) ==
    [Blank EXCEPT !.model = p.model, !.memory_bank = p.memory_bank, !.pca = p.pca,
                  !.pixel_mean = p.pixel_mean, !.pixel_std_safe = p.pixel_std_safe,
                  !.z_score_threshold = p.z_score, !.z_area_threshold = p.z_area,
                  !.z_max_threshold = p.z_max, !.affine_points = p.affine_points,
                  !.image_size = p.image_size]

\* C5: every predict call that returns a result computed its Z-score map and its decision
\* from the profile one engine object was constructed with: the object the request saw
\* when it arrived, or one constructed by a later reload; never a mixture.
C5_SingleProfile ==
    \A r \in Reqs :
        reqs[r].resp.status = 200 =>
            LET by == reqs[r].resp.by
                p == hist[by]
                res == reqs[r].resp.result
                stats == evaluate_z_score_map(ZMapOf(AsEngine(p), reqs[r].upload), p.z_score)
            IN  /\ by >= reqs[r].seen
                /\ reqs[r].seen >= 1
                /\ p # NoProfile
                /\ reqs[r].resp.used = p
                /\ res.z_stats = stats
                /\ res.label = label_str(is_ok_z(stats, p.z_area, p.z_max))
                /\ res.thresholds = [z_score |-> p.z_score, z_area |-> p.z_area,
                                     z_max |-> p.z_max]

\* a request that was in flight across a reload to a different profile has been answered
C5_Witness ==
    \E r \in Reqs :
        /\ reqs[r].resp.status = 200
        /\ reqs[r].resp.by > reqs[r].seen
        /\ hist[reqs[r].resp.by] # hist[reqs[r].seen]

(* ----------------------- C6: artifact load failure --------------------- *)
\* one step: a construction or reload succeeds exactly when every artifact is there, and
\* then holds that build whole; with no engine, a predict request ends in an error and
\* touches nothing; a result is only ever served by a completely loaded engine
C6_Step ==
    /\ (objs' = objs + 1 /\ settings[envConst'.DEFAULT_MODEL_NAME].exists) =>
           LET m == envConst'.DEFAULT_MODEL_NAME
               dir == disk[m]
               complete == Needed(settings[m].SAVE_FORMAT) \subseteq dir.files
           IN  /\ (engine' # 0) <=> complete
               /\ engine' # 0 =>
                      /\ inst'.stage = "ready"
                      /\ inst'.model_name = m
                      /\ inst'.model = Build(dir.build).model
                      /\ inst'.memory_bank = Build(dir.build).memory_bank
                      /\ inst'.pca = Build(dir.build).pca
                      /\ inst'.pixel_mean = Build(dir.build).pixel_mean
                      /\ inst'.pixel_std = Build(dir.build).pixel_std
                      /\ hist'[engine'] = Profile(inst')
    /\ \A r \in Reqs :
           (reqs'[r] # reqs[r] /\ engine = 0) =>
               /\ reqs'[r].st = "done"
               /\ reqs'[r].resp.status \in {500, 503}
               /\ reqs'[r].resp.error # ""
               /\ reqs'[r].resp.result = NoResult
               /\ inst' = inst
               /\ tasks' = tasks
    /\ \A r \in Reqs :
           (reqs'[r] # reqs[r] /\ engine # 0 /\ reqs[r].st # "reading") =>
               reqs'[r].st = "reading"
    /\ \A r \in Reqs :
           (reqs'[r] # reqs[r] /\ reqs'[r].resp.status = 200) =>
               /\ engine # 0
               /\ inst.stage = "ready"
               /\ reqs'[r].resp.used = hist[engine]

\* C6: a missing artifact at construction or reload fails the load as a whole and leaves
\* no engine; every predict request is then answered with an error, never served with a
\* partial or stale profile, until a reload succeeds, after which predict is served again.
C6_LoadFailure == [][C6_Step]_vars

\* a reload failed after an engine had been serving, and a predict request got the 503
C6_Witness ==
    \E r \in Reqs :
        /\ engine = 0
        /\ objs >= 2
        /\ hist[1] # NoProfile
        /\ inst.stage = "settings"
        /\ reqs[r].resp.status = 503

\* the label and statistics a predict call on the engine object self gives for an image
Outcome(self, image) ==
    LET p == predict(self, image, 1, TRUE, "ok", NoLogs)
    IN  [label |-> p.result.label, z_stats |-> p.result.z_stats]

(* ------------------------- C7: NG save failures ------------------------ *)
\* C7 as stated: a failure in preparing or writing the NG files never reaches the caller
\* of predict: a call with a valid geometry on a live engine, whose result log can be
\* written, always returns its result.
C7_AsStated ==
    \A r \in Reqs :
        (reqs[r].st = "done" /\ reqs[r].resp.by # 0
            /\ reqs[r].resp.error \notin {"geometry", "log"}) =>
            reqs[r].resp.status = 200

(* --------------------------- C8: the hand-off -------------------------- *)
\* one predict call ends: a task is started exactly for an NG result of an engine with
\* ng_image_save (returned, or lost because the result log could not be written after the
\* hand-off), and it carries the images of that call; predict writes no file
C8_Step ==
    /\ \A r \in Reqs :
           (reqs[r].st = "reading" /\ reqs'[r].st = "done") =>
               LET resp == reqs'[r].resp
                   returned == resp.status = 200 /\ resp.result.label = "NG"
                   unlogged == /\ resp.status = 500 /\ resp.error = "log"
                               /\ Outcome(inst, reqs[r].upload).label = "NG"
                   handed == inst.ng_image_save /\ (returned \/ unlogged)
               IN  /\ handed =>
                          /\ Len(tasks') = Len(tasks) + 1
                          /\ SubSeq(tasks', 1, Len(tasks)) = tasks
                          /\ tasks'[Len(tasks')].original = reqs[r].upload
                          /\ tasks'[Len(tasks')].image_id[1] = "NG"
                          /\ returned => <<"org", "NG", tasks'[Len(tasks')].image_id[2]>>
                                             = resp.result.image_id.original
                   /\ ~handed => tasks' = tasks
                   /\ ngFiles' = ngFiles
    /\ Len(tasks') <= Len(tasks) + 1
    /\ \A f \in ngFiles' : f \in ngFiles \/ (\E i \in DOMAIN tasks : tasks[i].image_id = f[1])
    /\ \A i \in DOMAIN tasks' : tasks'[i].image_id[1] = "NG"
    /\ \A f \in ngFiles' : f[1][1] = "NG"

\* C8: predict starts a save task if and only if the label of its result is NG and
\* ng_image_save is enabled; an OK result, or any result with ng_image_save disabled,
\* starts no task and creates no NG file; an NG result starts at most one task.
C8_Handoff == [][C8_Step]_vars

\* an NG result has been returned by an engine with ng_image_save, and its task is waiting
C8_Witness ==
    \E r \in Reqs :
        /\ reqs[r].resp.status = 200
        /\ reqs[r].resp.result.label = "NG"
        /\ reqs[r].resp.by = engine
        /\ inst.ng_image_save
        /\ Len(tasks) = 1
        /\ <<"org", "NG", tasks[1].image_id[2]>> = reqs[r].resp.result.image_id.original

(* ------------------ C9: construction for another model ----------------- *)
\* C9 as stated: after a construction request that returned an object, the single instance
\* is bound to the model that was requested.
C9_AsStated ==
    (ret.op = "construct" /\ engine # 0) =>
        /\ objs = 1
        /\ inst.model_name = ret.key[1]

(* ----------------------- C10: settings after reload -------------------- *)
\* the value a setting has now in the configuration sources of model m: the .env file's
\* value for the settings it overrides when the file is there, else the settings file's
CurrentValue(m, name) ==
    IF name \in DOMAIN env_override_map /\ envFile.exists
    THEN EnvGet(envFile, env_override_map[name])
    ELSE settings[m][name]

\* a reload succeeds: every setting of the new engine is the value now in the sources
C10_ReloadStep ==
    (objs' = objs + 1 /\ engine' # 0) =>
        LET m == EnvGet(envFile, "DEFAULT_MODEL_NAME")
        IN  IF inst'.model_name # m \/ ~settings[m].exists THEN FALSE
            ELSE /\ inst'.z_score_threshold = CurrentValue(m, "Z_SCORE_THRESHOLD")
                 /\ inst'.z_area_threshold = CurrentValue(m, "Z_AREA_THRESHOLD")
                 /\ inst'.z_max_threshold = CurrentValue(m, "Z_MAX_THRESHOLD")
                 /\ inst'.affine_points = CurrentValue(m, "AFFINE_POINTS")
                 /\ inst'.image_size = CurrentValue(m, "IMAGE_SIZE")
                 /\ inst'.max_images = CurrentValue(m, "MAX_CACHE_IMAGE")
                 /\ inst'.use_gpu = CurrentValue(m, "USE_GPU")
                 /\ inst'.ng_image_save = CurrentValue(m, "NG_IMAGE_SAVE")

\* C10 as stated: after every successful reload the thresholds, geometry, cache limit,
\* device flag, NG flag and model identity of the engine equal the values present in the
\* settings file and the .env file at the time of the reload.
C10_AsStated == [][C10_ReloadStep]_vars

(* ------------------------- C11: clear and readers ---------------------- *)
\* what a finished get or list call may have returned for the store contents c
Observed(t, c) ==
    IF thr'[t].op = "list" THEN thr'[t].ids = get_store_image_list(c)
    ELSE thr'[t].image_out = get_image_by_id(c, thr'[t].key)

\* one step of the threads: a get or list call that ran beside no put has seen the whole
\* contents of before, or, if a clear ran meanwhile, possibly nothing; the clear's one step
\* leaves an empty cache and does not touch the object that was bound before
C11_Step ==
    /\ \A t \in Threads :
           (thr'[t].op \in {"get", "list"} /\ thr'[t].pc = "done" /\ ~thr'[t].mut) =>
               \/ Observed(t, thr'[t].seen0)
               \/ Len(detached') > thr'[t].clr0 /\ Observed(t, <<>>)
    /\ \A t \in Threads :
           (thr[t].op = "clear" /\ thr[t].pc = "store" /\ thr'[t].pc = "done") =>
               /\ get_store_image_list(inst'.image_store) = <<>>
               /\ \A k \in Keys(inst.image_store) :
                      get_image_by_id(inst'.image_store, k) = NoImage
               /\ Len(detached') = Len(detached) + 1
               /\ detached'[Len(detached')] = inst.image_store

\* C11: a get or list running concurrently with clear observes the complete contents of
\* before the clear or an empty cache, never a partly cleared one; when clear has
\* completed, list returns no id and get returns not-found for every id stored before.
C11_ClearAtomic == [][C11_Step]_vars

\* a list call loaded the cache, a clear then completed, and the call returned the full
\* contents of before the clear although the cache is empty now
C11_Witness ==
    \E t \in Threads :
        /\ thr[t].op = "list"
        /\ thr[t].pc = "done"
        /\ ~thr[t].mut
        /\ Len(detached) > thr[t].clr0
        /\ thr[t].ids # <<>>
        /\ thr[t].ids = get_store_image_list(thr[t].seen0)
        /\ inst.image_store = <<>>

(* --------------------------- C12: the listing -------------------------- *)
\* the put that inserted the key k of the cache: the last put of k that found k absent
InsertedAt(k) ==
    CHOOSE i \in DOMAIN puts :
        /\ puts[i] = k
        /\ k \notin Keys(pre[i])
        /\ \A j \in (i + 1)..Len(puts) : puts[j] = k => k \in Keys(pre[j])

\* C12: list returns exactly the keys now in the cache, each once, newest first: in the
\* reverse of the order in which the keys were inserted.
C12_ListNewestFirst ==
    ret.op = "list" =>
        /\ {ret.ids[i] : i \in DOMAIN ret.ids} = Keys(inst.image_store)
        /\ Len(ret.ids) = Cardinality(Keys(inst.image_store))
        /\ Len(ret.ids) = Len(inst.image_store)
        /\ \A a, b \in DOMAIN ret.ids :
               a < b => InsertedAt(ret.ids[a]) > InsertedAt(ret.ids[b])

\* a list of two or more keys was returned after an eviction and after a key was put
\* again while it was cached
C12_Witness ==
    /\ ret.op = "list"
    /\ Len(ret.ids) >= 2
    /\ \E i \in DOMAIN puts : puts[i] \in Keys(pre[i])
    /\ \E i \in DOMAIN puts : puts[i] \notin Keys(inst.image_store)

(* ---------------------- C13: the cache and restarts -------------------- *)
\* every id a predict call can issue
AllIds == {<<kind, label, n>> : kind \in {"org", "ovr"}, label \in {"OK", "NG"}, n \in 1..MaxIds}

\* a reload succeeds: the engine in use is a new object whose cache is empty
C13_ReloadStep ==
    (objs' = objs + 1 /\ engine' # 0) =>
        /\ engine' # engine
        /\ inst'.id = engine'
        /\ inst'.image_store = <<>>
        /\ get_store_image_list(inst'.image_store) = <<>>
        /\ \A k \in AllIds : get_image_by_id(inst'.image_store, k) = NoImage

\* C13: right after every successful engine restart or reload the cache is empty, so
\* every image id issued before the restart is reported not-found.
C13_EmptyAfterRestart == [][C13_ReloadStep]_vars

\* a restart succeeded after the engine before it had answered a predict request: the
\* ids of that answer are no longer found
C13_Witness ==
    \E r \in Reqs :
        /\ reqs[r].resp.status = 200
        /\ reqs[r].resp.by # 0
        /\ reqs[r].resp.by < engine
        /\ inst.id = engine
        /\ inst.image_store = <<>>
        /\ get_image_by_id(inst.image_store, reqs[r].resp.result.image_id.original) = NoImage

(* --------------------------- C14: determinism -------------------------- *)
\* one step: whatever it did (a predict call, a clear, a save, a reload to the same
\* profile), the outcome of predict for every image is what it was before the step, and
\* the result a predict call returns is that outcome
C14_Step ==
    /\ (/\ engine # 0 /\ engine' # 0
        /\ inst.stage = "ready" /\ inst'.stage = "ready"
        /\ inst.affine_points = 4
        /\ Profile(inst') = Profile(inst)) =>
           \A image \in Images : Outcome(inst', image) = Outcome(inst, image)
    /\ \A r \in Reqs :
           (reqs[r].st = "reading" /\ reqs'[r].st = "done" /\ reqs'[r].resp.status = 200) =>
               /\ reqs'[r].resp.result.label = Outcome(inst, reqs[r].upload).label
               /\ reqs'[r].resp.result.z_stats = Outcome(inst, reqs[r].upload).z_stats
               /\ reqs'[r].resp.result.label = Outcome(inst', reqs[r].upload).label

\* C14: for a fixed profile and fixed thresholds, two predict calls on the same image
\* return the same label and the same z_stats, whatever predict, get, list or clear
\* operations happened before or between them.
C14_Deterministic == [][C14_Step]_vars

\* the engine has answered a predict call on an image of which an earlier result, under
\* another id and with the same label, is still in its cache
C14_Witness ==
    \E r \in Reqs :
        /\ reqs[r].resp.status = 200
        /\ reqs[r].resp.by = engine
        /\ \E i \in DOMAIN inst.image_store :
               /\ inst.image_store[i][2].px = reqs[r].upload.px
               /\ inst.image_store[i][1][3] # reqs[r].resp.result.image_id.original[3]
               /\ inst.image_store[i][1][2] = reqs[r].resp.result.label

(* ---------------------- C15: the calibration builder ------------------- *)
\* C15 as stated: when the build aborts (a corpus image missing or unreadable in the first
\* or the second pass, or an empty corpus), none of the artifact files has been written
\* or replaced by that run.
C15_AsStated == bld.pc = "failed" => built = bld.dir0

IsPrefix(a, b) == Len(a) <= Len(b) /\ SubSeq(b, 1, Len(a)) = a

C16_Step ==
    /\ IsPrefix(logs.all, logs'.all) /\ IsPrefix(logs.ng, logs'.ng)
    /\ \A r \in Reqs :
           (reqs[r].st = "reading" /\ reqs'[r].st = "done" /\ reqs'[r].resp.status = 200)
           => LET result == reqs'[r].resp.result
              IN  /\ logs'.all = Append(logs.all, result)
                  /\ logs'.ng = IF result.label = "NG" THEN Append(logs.ng, result)
                                ELSE logs.ng

\* C16: a predict that returns a result has, when it returns, appended that result once to
\* the all-results log, and once to the NG log exactly when its label is NG; no step changes
\* or removes an entry already in either log.
C16_LoggedOnce == [][C16_Step]_vars

\* an NG result has been returned after an OK one: the all-results log holds both, the NG
\* log only the second
C16_Witness ==
    \E r \in Reqs :
        /\ reqs[r].st = "done" /\ reqs[r].resp.status = 200
        /\ reqs[r].resp.result.label = "NG"
        /\ Len(logs.all) = 2 /\ logs.all[1].label = "OK" /\ logs.all[2] = reqs[r].resp.result
        /\ logs.ng = <<reqs[r].resp.result>>

(* --------------------- C17: a predict that fails early ----------------- *)
Finishing(r) == reqs[r].st = "reading" /\ reqs'[r].st = "done"
FileTrouble == {"makedirs", "log"}

C17_Step ==
    \A r \in Reqs :
        Finishing(r) =>
            LET resp == reqs'[r].resp
                early == resp.status = 500 /\ resp.error \in {"geometry", "decode"}
            IN  /\ early <=> (reqs[r].upload.kind = "garbage"
                               \/ (engine # 0 /\ inst.affine_points # 4))
                /\ early => /\ inst' = inst /\ engine' = engine
                            /\ logs' = logs /\ tasks' = tasks
                            /\ apilog' = Append(apilog, resp.error)
                /\ (~early /\ engine # 0)
                   => (resp.status = 200 \/ resp.error \in FileTrouble)

C18_NoZeroStd ==
    engine # 0 =>
        /\ DOMAIN inst.pixel_std_safe = DOMAIN inst.pixel_std
        /\ \A i \in DOMAIN inst.pixel_std :
               /\ inst.pixel_std_safe[i] # 0
               /\ inst.pixel_std[i] = 0 => inst.pixel_std_safe[i] = 1
               /\ inst.pixel_std[i] # 0 => inst.pixel_std_safe[i] = inst.pixel_std[i] * EPS_INV

\* a predict has returned a result from an engine whose profile has a zero pixel_std cell
C18_Witness ==
    \E r \in Reqs :
        /\ engine # 0 /\ reqs[r].resp.status = 200 /\ reqs[r].resp.by = engine
        /\ \E i \in DOMAIN inst.pixel_std : inst.pixel_std[i] = 0 /\ inst.pixel_std_safe[i] = 1
        /\ reqs[r].resp.result.z_stats.area_ratio.den = NCells

(* ----------------------- C19: the map statistics ----------------------- *)
\* C19: of an evaluated map, area is the number of cells strictly greater than the Z-score
\* threshold (all cells but those at or below it), maxval is the greatest cell, and
\* area_ratio is area divided by the number of cells.
C19_Stats ==
    dres.done =>
        /\ dres.stats.area = NCells - Cardinality({i \in Cells : dz[i] <= dthr.z_score})
        /\ \A i \in Cells : dz[i] <= dres.stats.maxval
        /\ \E i \in Cells : dz[i] = dres.stats.maxval
        /\ dres.stats.area_ratio.den = NCells
        /\ dres.stats.area_ratio.num = dres.stats.area

\* a map with one cell at the threshold and one above it: only the second is counted
C19_Witness ==
    /\ dres.done
    /\ \E i, j \in Cells : dz[i] = dthr.z_score /\ dz[j] > dthr.z_score
    /\ dres.stats.area = 1 /\ dres.stats.area_ratio = Ratio(1, NCells)

(* -------------------- C20: the limits as documented -------------------- *)
\* C20 as stated: the two thresholds are tolerated upper limits, so a map is judged NG
\* exactly when its anomalous-cell count exceeds Z_AREA_THRESHOLD or its maximum exceeds
\* Z_MAX_THRESHOLD, and OK when neither is exceeded.
C20_AsStated ==
    dres.done =>
        (dres.label = "NG" <=> (dres.stats.area > dthr.z_area \/ dres.stats.maxval > dthr.z_max))

(* ------------------ C21: environment over settings file ---------------- *)
IsSet(file, key) == file.exists /\ key \in file.keys

\* the value the precedence defaults < file < environment gives a setting
Layered(file, module, name) ==
    IF IsSet(file, env_override_map[name]) THEN file.vals[env_override_map[name]]
    ELSE module[name]

\* C21 as stated: the engine built when the process starts has, for every setting the
\* environment may override, the environment's value when the variable is set and the
\* value of the model's settings file when it is not.
C21_AsStated ==
    [][(~booted /\ booted' /\ engine' # 0) =>
          LET module == settings[inst'.model_name]
          IN  /\ inst'.max_images = Layered(envFile', module, "MAX_CACHE_IMAGE")
              /\ inst'.ng_image_save = Layered(envFile', module, "NG_IMAGE_SAVE")
              /\ inst'.use_gpu = Layered(envFile', module, "USE_GPU")]_vars

(* ---------------------- C22: settings validation ----------------------- *)
Named(errors, kind, name) ==
    \E i \in DOMAIN errors : errors[i].kind = kind /\ errors[i].name = name

\* C22 as stated: the validation returns (True, no errors) exactly when every required
\* setting is defined and passes its test; otherwise it returns False with errors that
\* name every setting that is not defined and every setting whose test fails.
C22_AsStated ==
    vres.done =>
        /\ vres.ok <=> (\A n \in RequiredNames : vmod[n] = "ok")
        /\ vres.ok => vres.errors = <<>>
        /\ ~vres.ok =>
               /\ vres.errors # <<>>
               /\ \A n \in RequiredNames :
                      /\ vmod[n] = "missing" => Named(vres.errors, "undefined", n)
                      /\ vmod[n] = "bad" => Named(vres.errors, "constraint", n)

(* -------------------- C23: construction of the singleton --------------- *)
\* a step of the class specification that is a construction request
IsConstruct == nops' = nops + 1 /\ UNCHANGED envVars

\* C23: a construction request made while an instance exists, for the model that instance
\* is bound to, returns that instance and changes nothing of it (profile, settings,
\* cache); no new object is made.
C23_SameInstance ==
    [][(IsConstruct /\ inst.id # 0 /\ ret'.key[1] = inst.model_name) =>
          /\ inst' = inst
          /\ engine' = inst.id
          /\ objs' = objs]_vars

\* the engine was constructed, cached an image, and was constructed again for its model:
\* still the first object, the image still cached
C23_Witness ==
    /\ ret.op = "construct" /\ ret.key[1] = inst.model_name
    /\ engine = 1 /\ objs = 1 /\ nops >= 2
    /\ inst.image_store # <<>>

(* ------------------- C24: put and clear, step by step ------------------ *)
KeySeq(store) == [i \in DOMAIN store |-> store[i][1]]

\* one step of the threads, seen from the cache (the object image_store is bound to):
\* a clear leaves a new empty object; otherwise the object is untouched, or a put holding
\* it has added its key at the end (or overwritten it in place), or has removed the
\* oldest entry; when no call is under way the cache is within its limit
C24_Step ==
    LET cur == inst.image_store
        nxt == inst'.image_store
    IN  /\ Len(detached') > Len(detached) => nxt = <<>>
        /\ Len(detached') = Len(detached) =>
               \/ nxt = cur
               \/ \E t \in Threads :
                      /\ thr[t].op = "put" /\ thr[t].pc = "setitem" /\ thr[t].d = Current
                      /\ IF thr[t].key \in Keys(cur)
                         THEN KeySeq(nxt) = KeySeq(cur)
                         ELSE nxt = Append(cur, <<thr[t].key, thr[t].image>>)
               \/ \E t \in Threads :
                      /\ thr[t].op = "put" /\ thr[t].pc = "popitem" /\ thr[t].d = Current
                      /\ cur # <<>> /\ nxt = Tail(cur)
        /\ Distinct(KeySeq(nxt), 1, Len(nxt))
        /\ (\A t \in Threads : thr'[t].pc = "done") => Len(nxt) <= inst'.max_images

\* C24: with put and clear interleaved at the level of their steps, the cache is never
\* corrupted: once the calls have completed it holds at most max_images entries, its order
\* is the order in which the surviving keys were inserted, and a completed clear leaves
\* none of the entries inserted before it.
C24_NoCorruption == [][C24_Step]_vars

\* a put of a second key and a clear have run through each other and completed: the clear
\* came between the put's steps, and the key is in the object that was replaced only
C24_Witness ==
    \E t, u \in Threads :
        /\ \A v \in Threads : thr[v].pc = "done"
        /\ thr[t].op = "put" /\ thr[t].key = <<"org", "OK", 2>>
        /\ thr[u].op = "clear"
        /\ Len(detached) > thr[t].clr0
        /\ get_image_by_id(inst.image_store, thr[t].key) = NoImage
        /\ \E d \in DOMAIN detached : thr[t].key \in Keys(detached[d])

(* ---------------------- C25: the order inside predict ------------------ *)
\* one predict call ends, by its return or by an exception: what it has done is an initial
\* part of: both cache writes (under the label decided), the start of the save task for an
\* NG result of an engine with ng_image_save, the result log, the return.  No NG file is
\* written by the call itself; a task it started is still waiting when it returns
C25_Step ==
    \A r \in Reqs :
        (reqs[r].st = "reading" /\ reqs'[r].st = "done" /\ reqs'[r].resp.by # 0) =>
            LET up == reqs[r].upload
                label == Outcome(inst, up).label
                wanted == label = "NG" /\ inst.ng_image_save
                cached == \E n \in 1..MaxIds :
                              inst'.image_store = predict(inst, up, n, TRUE, "ok", NoLogs).store
                dispatched == Len(tasks') = Len(tasks) + 1
                logged == Len(logs'.all) = Len(logs.all) + 1
                returned == reqs'[r].resp.status = 200
            IN  /\ returned => logged
                /\ logged => (cached /\ (wanted => dispatched))
                /\ dispatched =>
                       /\ cached /\ wanted
                       /\ tasks'[Len(tasks')].image_id[1] = label
                       /\ tasks'[Len(tasks')].original = up
                /\ ~dispatched => tasks' = tasks
                /\ ~cached => inst'.image_store = inst.image_store
                /\ ~logged => logs' = logs
                /\ ngFiles' = ngFiles

\* C25: within every predict call the decision is computed, then both cache entries are
\* written, then the save task is dispatched (NG result with persistence), then the result
\* is logged, then the result is returned; predict returns without waiting for the task,
\* whose file writes may come after the return.
C25_Order == [][C25_Step]_vars

\* an NG result was returned and logged, both of its images are in the cache, and the task
\* that will write its files has not run yet
C25_Witness ==
    \E r \in Reqs :
        /\ reqs[r].st = "done" /\ reqs[r].resp.status = 200
        /\ reqs[r].resp.result.label = "NG"
        /\ reqs[r].resp.result.image_id.original \in Keys(inst.image_store)
        /\ reqs[r].resp.result.image_id.overlay \in Keys(inst.image_store)
        /\ \E i \in DOMAIN tasks :
               <<"org", "NG", tasks[i].image_id[2]>> = reqs[r].resp.result.image_id.original
        /\ ngFiles = {}
        /\ Len(logs.ng) >= 1
        /\ logs.ng[Len(logs.ng)] = reqs[r].resp.result

(* --------------------------- C26: result ids --------------------------- *)
\* C26 as stated: the id of a returned result starts with the label of that result, and
\* its two keys were not in the cache when the call began, so that the call overwrites no
\* entry of a prediction that is still in the cache.
C26_AsStated ==
    [][\A r \in Reqs :
          (reqs[r].st = "reading" /\ reqs'[r].st = "done" /\ reqs'[r].resp.status = 200) =>
              LET res == reqs'[r].resp.result
              IN  /\ res.image_id.original[2] = res.label
                  /\ res.image_id.overlay[2] = res.label
                  /\ res.image_id.original \notin Keys(inst.image_store)
                  /\ res.image_id.overlay \notin Keys(inst.image_store)]_vars

(* ----------------------- C27: the client's retries --------------------- *)
Failed(outs) == \A i \in DOMAIN outs : outs[i] # "ok"

\* the client's predict at any moment, and once it has returned: the requests sent, the
\* time slept, and what is returned
C27_Inv ==
    LET sent == Len(cli.outs)
        before == SubSeq(cli.outs, 1, sent - 1)
    IN  /\ sent <= cli.retries
        /\ Failed(before)
        /\ cli.waited <= cli.retry_delay * (IF sent = 0 THEN 0 ELSE sent - 1) + 
                          (IF cli.pc = "post" /\ sent > 0 THEN cli.retry_delay ELSE 0)
        /\ cli.pc = "sleep" => (sent < cli.retries /\ Failed(cli.outs))
        /\ cli.pc = "done" =>
               /\ cli.ret \in {"response", "None"}
               /\ cli.ret = "response" <=> (sent > 0 /\ cli.outs[sent] = "ok")
               /\ cli.ret = "None" <=> (Failed(cli.outs) /\ sent = cli.retries)
               /\ cli.waited = cli.retry_delay * (IF sent = 0 THEN 0 ELSE sent - 1)
        /\ cli.pc # "done" => cli.ret = ""

\* C27: the client's predict(image, retries, retry_delay) sends at most retries requests,
\* stops at the first request that succeeds and returns its response, waits retry_delay
\* between consecutive attempts but not after the last one, returns None exactly when
\* every attempt failed (with retries 0 no request is sent), and always terminates.
C27_Retries == []C27_Inv /\ <>(cli.pc = "done")

\* every one of three attempts has failed: None is returned after two waits, none of them
\* after the last attempt
C27_Witness ==
    /\ cli.pc = "done" /\ cli.ret = "None"
    /\ cli.retries = 3 /\ Len(cli.outs) = 3
    /\ cli.waited = 2 * cli.retry_delay

(* -------------------- C28: originals and overlays ---------------------- *)
\* C28: between predict calls, whenever the original of a result id is in the cache its
\* overlay is in the cache too, for every cache limit.
C28_Paired ==
    \A k \in Keys(inst.image_store) :
        k[1] = "org" => <<"ovr", k[2], k[3]>> \in Keys(inst.image_store)

\* a full cache of odd limit after several predictions: the oldest entry is an overlay
\* whose original has been evicted, the newest a complete pair
C28_Witness ==
    /\ inst.max_images = 3 /\ Len(inst.image_store) = 3
    /\ nops >= 3
    /\ inst.image_store[1][1][1] = "ovr"
    /\ inst.image_store[2][1][1] = "org"
    /\ <<"org", inst.image_store[1][1][2], inst.image_store[1][1][3]>>
           \notin Keys(inst.image_store)

(* --------------------- C29: reload after a failure --------------------- *)
\* a reload_engine call that follows a failed one (engine is None and the class holds the
\* object whose __init__ raised): the object it leaves is another one; when it succeeds,
\* the engine is that object, initialized to the end for the model named now, with its
\* artifacts loaded and an empty cache
C29_Step ==
    (objs' = objs + 1 /\ objs >= 1 /\ engine = 0) =>
        /\ inst.id # 0 /\ inst.stage # "ready"
        /\ inst'.id # inst.id
        /\ inst'.id = objs'
        /\ engine' # 0 =>
               /\ engine' = inst'.id
               /\ inst'.initialized /\ inst'.stage = "ready"
               /\ inst'.model_name = envConst'.DEFAULT_MODEL_NAME
               /\ settings'[inst'.model_name].exists
               /\ inst'.save_format = settings'[inst'.model_name].SAVE_FORMAT
               /\ inst'.z_max_threshold = settings'[inst'.model_name].Z_MAX_THRESHOLD
               /\ inst'.memory_bank # <<>> /\ inst'.pixel_mean # <<>>
               /\ Len(inst'.pixel_std_safe) = Len(inst'.pixel_std)
               /\ inst'.model.build = disk'[inst'.model_name].build
               /\ inst'.image_store = <<>>

\* C29: after a reload_engine that failed, the next reload_engine performs a complete
\* fresh initialization and, if it succeeds, yields a fully initialized engine; the
\* partially initialized object of the failed attempt is never the engine in use.
C29_FreshAfterFailure == [][C29_Step]_vars /\ [](engine # 0 => inst.stage = "ready")

\* the first load failed, the files were put right, and the second reload succeeded with
\* a new object
C29_Witness ==
    /\ objs = 2 /\ engine = 2 /\ inst.id = 2
    /\ hist[1] = NoProfile /\ hist[2] # NoProfile
    /\ inst.stage = "ready"

(* --------------------- C30: the bank and its format -------------------- *)
\* C30 as stated: for every accepted SAVE_FORMAT, the memory bank the engine has loaded,
\* and averages, is the reduced-space set whose centroid run_creator measured the
\* distances behind pixel_mean and pixel_std to.
C30_AsStated ==
    cal.pc = "loaded" =>
        /\ cal.loaded = cal.scored
        /\ cal.loaded.space = "reduced"
        /\ Mean(cal.loaded.vals) = Mean(cal.scored.vals)
====
